---------------------------- MODULE Spec2Model ----------------------------
(***************************************************************************)
(* A model of the NFL game-stats crawler (src/tools/nfl_crawler.py):       *)
(* fetch_with_retry, check_robots_txt, parse_game_summary and              *)
(* fetch_week_games.                                                       *)
(*                                                                         *)
(* Python strings are modelled as sequences of one-character strings, so   *)
(* that lower(), split(), int(), the "in" substring test and the regular   *)
(* expressions of the source are computed, not assumed.  An optional value *)
(* (None or a value) is the empty tuple or a one-element tuple.            *)
(***************************************************************************)
EXTENDS Integers, Sequences, FiniteSets, TLC

(***************************************************************************)
(* Optional values.                                                        *)
(***************************************************************************)
None == <<>>

Some(x) == <<x>>

IsSome(o) == Len(o) = 1

Get(o) == o[1]

(***************************************************************************)
(* Characters and the string functions of Python the source relies on.     *)
(***************************************************************************)
UpperChars ==
    <<"A", "B", "C", "D", "E", "F", "G", "H", "I", "J", "K", "L", "M",
      "N", "O", "P", "Q", "R", "S", "T", "U", "V", "W", "X", "Y", "Z">>

LowerChars ==
    <<"a", "b", "c", "d", "e", "f", "g", "h", "i", "j", "k", "l", "m",
      "n", "o", "p", "q", "r", "s", "t", "u", "v", "w", "x", "y", "z">>

DigitChars == <<"0", "1", "2", "3", "4", "5", "6", "7", "8", "9">>

IsDigit(c) == \E i \in 1..10 : DigitChars[i] = c

DigitVal(c) == (CHOOSE i \in 1..10 : DigitChars[i] = c) - 1

IsLowerAZ(c) == \E i \in 1..26 : LowerChars[i] = c

IsUpperAZ(c) == \E i \in 1..26 : UpperChars[i] = c

IsSpace(c) == c = " "

\* str.lower() on one character
LowerChar(c) ==
    IF IsUpperAZ(c)
    THEN LowerChars[CHOOSE i \in 1..26 : UpperChars[i] = c]
    ELSE c

\* str.lower()
Lower(s) == [i \in 1..Len(s) |-> LowerChar(s[i])]

\* sub in s
Contains(s, sub) ==
    \E i \in 0..(Len(s) - Len(sub)) : SubSeq(s, i + 1, i + Len(sub)) = sub

\* s.startswith(p)
StartsWith(s, p) == Len(p) <= Len(s) /\ SubSeq(s, 1, Len(p)) = p

\* str.strip()
RECURSIVE LStrip(_)
LStrip(s) == IF s # <<>> /\ IsSpace(Head(s)) THEN LStrip(Tail(s)) ELSE s

RECURSIVE RStrip(_)
RStrip(s) ==
    IF s # <<>> /\ IsSpace(s[Len(s)]) THEN RStrip(SubSeq(s, 1, Len(s) - 1)) ELSE s

Strip(s) == RStrip(LStrip(s))

\* s.replace(c, '') for a one-character c
RemoveChar(s, c) == SelectSeq(s, LAMBDA x : x # c)

\* s.replace(old, new): every non-overlapping occurrence, left to right
RECURSIVE Replace(_, _, _)
Replace(s, old, new) ==
    IF old = <<>> \/ Len(s) < Len(old) THEN s
    ELSE IF StartsWith(s, old)
         THEN new \o Replace(SubSeq(s, Len(old) + 1, Len(s)), old, new)
         ELSE <<Head(s)>> \o Replace(Tail(s), old, new)

\* s.split(c) for a one-character separator: the empty pieces are kept
RECURSIVE SplitOn(_, _)
SplitOn(s, c) ==
    IF \E i \in 1..Len(s) : s[i] = c
    THEN LET i == CHOOSE k \in 1..Len(s) :
                      s[k] = c /\ \A j \in 1..(k - 1) : s[j] # c
         IN  <<SubSeq(s, 1, i - 1)>> \o SplitOn(SubSeq(s, i + 1, Len(s)), c)
    ELSE <<s>>

\* s.split(): on runs of whitespace, no empty pieces
SplitWS(s) == SelectSeq(SplitOn(s, " "), LAMBDA w : w # <<>>)

\* the value of a non-empty run of decimal digits
RECURSIVE DigitsVal(_)
DigitsVal(s) ==
    IF s = <<>> THEN 0
    ELSE 10 * DigitsVal(SubSeq(s, 1, Len(s) - 1)) + DigitVal(s[Len(s)])

AllDigits(s) == s # <<>> /\ \A i \in 1..Len(s) : IsDigit(s[i])

\* int(s): surrounding whitespace and one sign are accepted; anything else
\* raises ValueError (None here)
ParseInt(s) ==
    LET t == Strip(s)
        signed == t # <<>> /\ Head(t) \in {"+", "-"}
        body == IF signed THEN Tail(t) ELSE t
    IN  IF AllDigits(body)
        THEN Some(IF signed /\ Head(t) = "-" THEN 0 - DigitsVal(body)
                  ELSE DigitsVal(body))
        ELSE None

\* str(n) for n >= 0
RECURSIVE NatToStr(_)
NatToStr(n) ==
    IF n < 10 THEN <<DigitChars[n + 1]>>
    ELSE NatToStr(n \div 10) \o <<DigitChars[(n % 10) + 1]>>

\* n formatted with at least w digits, zero-padded (strftime's %Y, %m, %d)
RECURSIVE ZeroPad(_, _)
ZeroPad(s, w) == IF Len(s) >= w THEN s ELSE ZeroPad(<<"0">> \o s, w)

(***************************************************************************)
(* Program constants.                                                      *)
(***************************************************************************)
CRAWL_DELAY == 2

MAX_RETRIES == 3

\* "https://www.pro-football-reference.com"
PFR_BASE_URL ==
    <<"h", "t", "t", "p", "s", ":", "/", "/", "w", "w", "w", ".", "p",
      "r", "o", "-", "f", "o", "o", "t", "b", "a", "l", "l", "-", "r",
      "e", "f", "e", "r", "e", "n", "c", "e", ".", "c", "o", "m">>

\* "429"
STR_429 ==
    <<"4", "2", "9">>

\* "5"
RA_5 ==
    <<"5">>

\* "0"
RA_0 ==
    <<"0">>

\* "-1"
RA_NEG ==
    <<"-", "1">>

\* "abc"
RA_ABC ==
    <<"a", "b", "c">>

\* ""
RA_EMPTY ==
    <<>>

\* "Wed, 21 Oct 2015 07:28:00 GMT"
RA_DATE ==
    <<"W", "e", "d", ",", " ", "2", "1", " ", "O", "c", "t", " ", "2",
      "0", "1", "5", " ", "0", "7", ":", "2", "8", ":", "0", "0", " ",
      "G", "M", "T">>

\* "Read timed out. (read timeout=15)"
MSG_TIMEOUT ==
    <<"R", "e", "a", "d", " ", "t", "i", "m", "e", "d", " ", "o", "u",
      "t", ".", " ", "(", "r", "e", "a", "d", " ", "t", "i", "m", "e",
      "o", "u", "t", "=", "1", "5", ")">>

\* "<HTTPSConnection object at 0x7f42901c>: Connection refused"
MSG_REFUSED ==
    <<"<", "H", "T", "T", "P", "S", "C", "o", "n", "n", "e", "c", "t",
      "i", "o", "n", " ", "o", "b", "j", "e", "c", "t", " ", "a", "t",
      " ", "0", "x", "7", "f", "4", "2", "9", "0", "1", "c", ">", ":",
      " ", "C", "o", "n", "n", "e", "c", "t", "i", "o", "n", " ", "r",
      "e", "f", "u", "s", "e", "d">>

\* "too many 429 error responses"
MSG_RETRY ==
    <<"t", "o", "o", " ", "m", "a", "n", "y", " ", "4", "2", "9", " ",
      "e", "r", "r", "o", "r", " ", "r", "e", "s", "p", "o", "n", "s",
      "e", "s">>

\* "/years/2023/week_1.htm"
PATH_WEEK ==
    <<"/", "y", "e", "a", "r", "s", "/", "2", "0", "2", "3", "/", "w",
      "e", "e", "k", "_", "1", ".", "h", "t", "m">>

\* "/boxscores/202309070kan.htm"
PATH_BOX_KAN ==
    <<"/", "b", "o", "x", "s", "c", "o", "r", "e", "s", "/", "2", "0",
      "2", "3", "0", "9", "0", "7", "0", "k", "a", "n", ".", "h", "t",
      "m">>

\* "/boxscores/201604290phi.htm"
PATH_BOX_429 ==
    <<"/", "b", "o", "x", "s", "c", "o", "r", "e", "s", "/", "2", "0",
      "1", "6", "0", "4", "2", "9", "0", "p", "h", "i", ".", "h", "t",
      "m">>

\* " Client Error: "
STR_CLIENT_ERROR ==
    <<" ", "C", "l", "i", "e", "n", "t", " ", "E", "r", "r", "o", "r",
      ":", " ">>

\* " Server Error: "
STR_SERVER_ERROR ==
    <<" ", "S", "e", "r", "v", "e", "r", " ", "E", "r", "r", "o", "r",
      ":", " ">>

\* " for url: "
STR_FOR_URL ==
    <<" ", "f", "o", "r", " ", "u", "r", "l", ":", " ">>

\* "Not Found"
REASON_404 ==
    <<"N", "o", "t", " ", "F", "o", "u", "n", "d">>

\* "Internal Server Error"
REASON_500 ==
    <<"I", "n", "t", "e", "r", "n", "a", "l", " ", "S", "e", "r", "v",
      "e", "r", " ", "E", "r", "r", "o", "r">>

(***************************************************************************)
(* State.                                                                  *)
(*   pc        position of the single flow of control                      *)
(*   caller    who called fetch_with_retry: "direct" (a call of the        *)
(*             function on its own), "week" or "boxscore"                  *)
(*   furl      the url argument of the running fetch_with_retry call       *)
(*   attempt   the loop variable of fetch_with_retry                       *)
(*   gets      requests.get calls issued by the running call               *)
(*   sleeps    time.sleep calls the running call has made                  *)
(*   slept     the duration of the last of them, if any                    *)
(*   resp      what the last requests.get produced (a response or an       *)
(*             exception), with the attempt it answered                    *)
(*   fresult   how the call ended: a response, None, or an exception       *)
(*   page      the game summary blocks of the week page                    *)
(*   idx       index in page of the block last taken by the loop           *)
(*   g         the locals of the running parse_game_summary call           *)
(*   boxscore  the team-stats rows of the boxscore page last received      *)
(*   games     the list fetch_week_games accumulates                       *)
(*   ret       what the last parse_game_summary call returned              *)
(*   robots    check_robots_txt calls made, each a fetch of robots.txt     *)
(*   delays    time.sleep(CRAWL_DELAY) calls made by parse_game_summary    *)
(*   calls     the calls made so far for the page being fetched: the week  *)
(*             page, then the boxscore page of the running game            *)
(*   week_response  what fetch_week_games got for the week page            *)
(*   outcome   how main ended                                              *)
(*   table     the DataFrame main hands to to_csv, if any                  *)
(*   args      the parsed command line: --year and --week                  *)
(***************************************************************************)
VARIABLES pc, caller, furl, attempt, gets, sleeps, slept, resp, fresult,
          page, idx, g, boxscore, games, ret, robots, delays,
          calls, week_response, outcome, table, args

fvars == <<caller, furl, attempt, gets, sleeps, slept, resp, fresult>>

cvars == <<page, idx, g, boxscore, games, ret, robots, delays>>

mvars == <<calls, week_response, outcome, table>>

vars == <<pc, caller, furl, attempt, gets, sleeps, slept, resp, fresult,
          page, idx, g, boxscore, games, ret, robots, delays,
          calls, week_response, outcome, table, args>>

(***************************************************************************)
(* fetch_with_retry                                                        *)
(***************************************************************************)
RECURSIVE Pow2(_)
Pow2(n) == IF n = 0 THEN 1 ELSE 2 * Pow2(n - 1)

NoResp ==
    [kind |-> "none", status |-> 0, retryAfter |-> None, msg |-> <<>>, at |-> 0]

HttpResp(status, ra, at) ==
    [kind |-> "response", status |-> status, retryAfter |-> ra, msg |-> <<>>,
     at |-> at]

ExcResp(m, at) ==
    [kind |-> "exception", status |-> 0, retryAfter |-> None, msg |-> m, at |-> at]

Pending == [kind |-> "pending", exc |-> "none"]

ReturnedResponse == [kind |-> "response", exc |-> "none"]

ReturnedNone == [kind |-> "none", exc |-> "none"]

Raised(cls) == [kind |-> "raised", exc |-> cls]

\* The Retry-After headers a 429 response may carry: none, or a value.
RetryAfterValues ==
    {None, Some(RA_EMPTY), Some(RA_5), Some(RA_0), Some(RA_NEG), Some(RA_ABC),
     Some(RA_DATE)}

\* Statuses for which response.raise_for_status() raises HTTPError.
ErrorStatuses == {404, 500}

\* str(e) of the HTTPError raise_for_status() raises:
\* "<status> Client|Server Error: <reason> for url: <url>"
HttpErrorMsg(status, url) ==
    NatToStr(status)
        \o (IF status < 500 THEN STR_CLIENT_ERROR ELSE STR_SERVER_ERROR)
        \o (IF status = 404 THEN REASON_404 ELSE REASON_500)
        \o STR_FOR_URL \o url

\* str(e) of the exceptions requests.get may raise.
TransportMsgs == {MSG_TIMEOUT, MSG_REFUSED, MSG_RETRY}

\* WaitTime with the fallback of line 84 computed as the comment beside it
\* says ("exponential backoff") instead of linearly.
WaitTime_FallbackExponential(retry_after, att) ==
    IF IsSome(retry_after) /\ Get(retry_after) # <<>>
    THEN IF IsSome(ParseInt(Get(retry_after)))
         THEN Get(ParseInt(Get(retry_after)))
         ELSE CRAWL_DELAY * Pow2(att)
    ELSE CRAWL_DELAY * Pow2(att)

\* wait_time of lines 77-87: retry_after is response.headers.get('Retry-After')
WaitTime(retry_after, att) ==
    IF IsSome(retry_after) /\ Get(retry_after) # <<>>
    THEN IF IsSome(ParseInt(Get(retry_after)))
         THEN Get(ParseInt(Get(retry_after)))
         ELSE CRAWL_DELAY * (att + 1)
    ELSE CRAWL_DELAY * Pow2(att)

\* the condition of line 102
RetriesException(msg, att) == att < MAX_RETRIES /\ Contains(msg, STR_429)

\* time.sleep(d) inside the loop, then continue; time.sleep raises
\* ValueError for a negative duration, which no except clause of
\* fetch_with_retry catches.
SleepAndContinue(d) ==
    IF d < 0
    THEN /\ pc' = "fetch_done"
         /\ fresult' = Raised("ValueError")
         /\ UNCHANGED <<attempt, sleeps, slept>>
    ELSE /\ pc' = "fetch_get"
         /\ sleeps' = sleeps + 1
         /\ slept' = Some(d)
         /\ attempt' = attempt + 1
         /\ UNCHANGED fresult

\* lines 101-111: the except clause, for an exception whose str() is msg
HandleRequestException(msg) ==
    IF RetriesException(msg, attempt)
    THEN SleepAndContinue(CRAWL_DELAY * Pow2(attempt))
    ELSE /\ pc' = "fetch_done"
         /\ fresult' = Raised("RequestException")
         /\ UNCHANGED <<attempt, sleeps, slept>>

\* lines 66-95: the GET is answered with status 429
FetchRateLimited ==
    /\ pc = "fetch_get"
    /\ \E ra \in RetryAfterValues :
          /\ resp' = HttpResp(429, ra, attempt)
          /\ IF attempt < MAX_RETRIES
             THEN SleepAndContinue(WaitTime(ra, attempt))
             ELSE /\ pc' = "fetch_done"
                  /\ fresult' = ReturnedNone
                  /\ UNCHANGED <<attempt, sleeps, slept>>
    /\ gets' = gets + 1
    /\ UNCHANGED <<caller, furl>>
    /\ UNCHANGED cvars
    /\ UNCHANGED mvars
    /\ UNCHANGED args

\* lines 66, 98-99: the GET is answered with a successful status
FetchSuccess ==
    /\ pc = "fetch_get"
    /\ resp' = HttpResp(200, None, attempt)
    /\ gets' = gets + 1
    /\ pc' = "fetch_done"
    /\ fresult' = ReturnedResponse
    /\ UNCHANGED <<caller, furl, attempt, sleeps, slept>>
    /\ UNCHANGED cvars
    /\ UNCHANGED mvars
    /\ UNCHANGED args

\* lines 66, 98, 101-111: the GET is answered with another error status, and
\* raise_for_status() raises inside the try block
FetchHttpError ==
    /\ pc = "fetch_get"
    /\ \E st \in ErrorStatuses :
          /\ resp' = HttpResp(st, None, attempt)
          /\ HandleRequestException(HttpErrorMsg(st, furl))
    /\ gets' = gets + 1
    /\ UNCHANGED <<caller, furl>>
    /\ UNCHANGED cvars
    /\ UNCHANGED mvars
    /\ UNCHANGED args

\* lines 66, 101-111: requests.get raises (timeout, connection failure, ...)
FetchTransportError ==
    /\ pc = "fetch_get"
    /\ \E m \in TransportMsgs :
          /\ resp' = ExcResp(m, attempt)
          /\ HandleRequestException(m)
    /\ gets' = gets + 1
    /\ UNCHANGED <<caller, furl>>
    /\ UNCHANGED cvars
    /\ UNCHANGED mvars
    /\ UNCHANGED args

FetchStep ==
    \/ FetchRateLimited
    \/ FetchSuccess
    \/ FetchHttpError
    \/ FetchTransportError

\* The state at the entry of fetch_with_retry(url), called by who.
EnterFetch(url, who) ==
    /\ pc' = "fetch_get"
    /\ caller' = who
    /\ furl' = url
    /\ attempt' = 0
    /\ gets' = 0
    /\ sleeps' = 0
    /\ slept' = None
    /\ resp' = NoResp
    /\ fresult' = Pending

(***************************************************************************)
(* parse_game_summary: the pure parts.                                     *)
(*                                                                         *)
(* A game summary block is what the BeautifulSoup queries of lines 145-224 *)
(* find in it:                                                             *)
(*   teams   whether a <table class="teams"> exists                        *)
(*   date    the text of <tr class="date">, if any                         *)
(*   winner  the winner row, if any: the text of its team link and of its  *)
(*           score cell, each if any                                       *)
(*   loser   the same for the loser row                                    *)
(*   href    the href of the anchor of the gamelink cell, if any           *)
(***************************************************************************)
(***************************************************************************)
(* Team names (the values of team_abbr_map, lines 206-219).                 *)
(***************************************************************************)
\* "Arizona Cardinals"
T_ArizonaCardinals ==
    <<"A", "r", "i", "z", "o", "n", "a", " ", "C", "a", "r", "d", "i",
      "n", "a", "l", "s">>

\* "Atlanta Falcons"
T_AtlantaFalcons ==
    <<"A", "t", "l", "a", "n", "t", "a", " ", "F", "a", "l", "c", "o",
      "n", "s">>

\* "Baltimore Ravens"
T_BaltimoreRavens ==
    <<"B", "a", "l", "t", "i", "m", "o", "r", "e", " ", "R", "a", "v",
      "e", "n", "s">>

\* "Buffalo Bills"
T_BuffaloBills ==
    <<"B", "u", "f", "f", "a", "l", "o", " ", "B", "i", "l", "l", "s">>

\* "Carolina Panthers"
T_CarolinaPanthers ==
    <<"C", "a", "r", "o", "l", "i", "n", "a", " ", "P", "a", "n", "t",
      "h", "e", "r", "s">>

\* "Chicago Bears"
T_ChicagoBears ==
    <<"C", "h", "i", "c", "a", "g", "o", " ", "B", "e", "a", "r", "s">>

\* "Cincinnati Bengals"
T_CincinnatiBengals ==
    <<"C", "i", "n", "c", "i", "n", "n", "a", "t", "i", " ", "B", "e",
      "n", "g", "a", "l", "s">>

\* "Cleveland Browns"
T_ClevelandBrowns ==
    <<"C", "l", "e", "v", "e", "l", "a", "n", "d", " ", "B", "r", "o",
      "w", "n", "s">>

\* "Dallas Cowboys"
T_DallasCowboys ==
    <<"D", "a", "l", "l", "a", "s", " ", "C", "o", "w", "b", "o", "y",
      "s">>

\* "Denver Broncos"
T_DenverBroncos ==
    <<"D", "e", "n", "v", "e", "r", " ", "B", "r", "o", "n", "c", "o",
      "s">>

\* "Detroit Lions"
T_DetroitLions ==
    <<"D", "e", "t", "r", "o", "i", "t", " ", "L", "i", "o", "n", "s">>

\* "Green Bay Packers"
T_GreenBayPackers ==
    <<"G", "r", "e", "e", "n", " ", "B", "a", "y", " ", "P", "a", "c",
      "k", "e", "r", "s">>

\* "Houston Texans"
T_HoustonTexans ==
    <<"H", "o", "u", "s", "t", "o", "n", " ", "T", "e", "x", "a", "n",
      "s">>

\* "Indianapolis Colts"
T_IndianapolisColts ==
    <<"I", "n", "d", "i", "a", "n", "a", "p", "o", "l", "i", "s", " ",
      "C", "o", "l", "t", "s">>

\* "Jacksonville Jaguars"
T_JacksonvilleJaguars ==
    <<"J", "a", "c", "k", "s", "o", "n", "v", "i", "l", "l", "e", " ",
      "J", "a", "g", "u", "a", "r", "s">>

\* "Kansas City Chiefs"
T_KansasCityChiefs ==
    <<"K", "a", "n", "s", "a", "s", " ", "C", "i", "t", "y", " ", "C",
      "h", "i", "e", "f", "s">>

\* "Las Vegas Raiders"
T_LasVegasRaiders ==
    <<"L", "a", "s", " ", "V", "e", "g", "a", "s", " ", "R", "a", "i",
      "d", "e", "r", "s">>

\* "Los Angeles Chargers"
T_LosAngelesChargers ==
    <<"L", "o", "s", " ", "A", "n", "g", "e", "l", "e", "s", " ", "C",
      "h", "a", "r", "g", "e", "r", "s">>

\* "Los Angeles Rams"
T_LosAngelesRams ==
    <<"L", "o", "s", " ", "A", "n", "g", "e", "l", "e", "s", " ", "R",
      "a", "m", "s">>

\* "Miami Dolphins"
T_MiamiDolphins ==
    <<"M", "i", "a", "m", "i", " ", "D", "o", "l", "p", "h", "i", "n",
      "s">>

\* "Minnesota Vikings"
T_MinnesotaVikings ==
    <<"M", "i", "n", "n", "e", "s", "o", "t", "a", " ", "V", "i", "k",
      "i", "n", "g", "s">>

\* "New England Patriots"
T_NewEnglandPatriots ==
    <<"N", "e", "w", " ", "E", "n", "g", "l", "a", "n", "d", " ", "P",
      "a", "t", "r", "i", "o", "t", "s">>

\* "New Orleans Saints"
T_NewOrleansSaints ==
    <<"N", "e", "w", " ", "O", "r", "l", "e", "a", "n", "s", " ", "S",
      "a", "i", "n", "t", "s">>

\* "New York Giants"
T_NewYorkGiants ==
    <<"N", "e", "w", " ", "Y", "o", "r", "k", " ", "G", "i", "a", "n",
      "t", "s">>

\* "New York Jets"
T_NewYorkJets ==
    <<"N", "e", "w", " ", "Y", "o", "r", "k", " ", "J", "e", "t", "s">>

\* "Philadelphia Eagles"
T_PhiladelphiaEagles ==
    <<"P", "h", "i", "l", "a", "d", "e", "l", "p", "h", "i", "a", " ",
      "E", "a", "g", "l", "e", "s">>

\* "Pittsburgh Steelers"
T_PittsburghSteelers ==
    <<"P", "i", "t", "t", "s", "b", "u", "r", "g", "h", " ", "S", "t",
      "e", "e", "l", "e", "r", "s">>

\* "San Francisco 49ers"
T_SanFranciscoFortyniners ==
    <<"S", "a", "n", " ", "F", "r", "a", "n", "c", "i", "s", "c", "o",
      " ", "4", "9", "e", "r", "s">>

\* "Seattle Seahawks"
T_SeattleSeahawks ==
    <<"S", "e", "a", "t", "t", "l", "e", " ", "S", "e", "a", "h", "a",
      "w", "k", "s">>

\* "Tampa Bay Buccaneers"
T_TampaBayBuccaneers ==
    <<"T", "a", "m", "p", "a", " ", "B", "a", "y", " ", "B", "u", "c",
      "c", "a", "n", "e", "e", "r", "s">>

\* "Tennessee Titans"
T_TennesseeTitans ==
    <<"T", "e", "n", "n", "e", "s", "s", "e", "e", " ", "T", "i", "t",
      "a", "n", "s">>

\* "Washington Football Team"
T_WashingtonFootballTeam ==
    <<"W", "a", "s", "h", "i", "n", "g", "t", "o", "n", " ", "F", "o",
      "o", "t", "b", "a", "l", "l", " ", "T", "e", "a", "m">>

\* team_abbr_map (lines 206-219), as (abbreviation, full name) pairs
team_abbr_map ==
    <<
      <<<<"a", "r", "i">>, T_ArizonaCardinals>>,
      <<<<"a", "t", "l">>, T_AtlantaFalcons>>,
      <<<<"b", "a", "l">>, T_BaltimoreRavens>>,
      <<<<"b", "u", "f">>, T_BuffaloBills>>,
      <<<<"c", "a", "r">>, T_CarolinaPanthers>>,
      <<<<"c", "h", "i">>, T_ChicagoBears>>,
      <<<<"c", "i", "n">>, T_CincinnatiBengals>>,
      <<<<"c", "l", "e">>, T_ClevelandBrowns>>,
      <<<<"d", "a", "l">>, T_DallasCowboys>>,
      <<<<"d", "e", "n">>, T_DenverBroncos>>,
      <<<<"d", "e", "t">>, T_DetroitLions>>,
      <<<<"g", "b">>, T_GreenBayPackers>>,
      <<<<"h", "o", "u">>, T_HoustonTexans>>,
      <<<<"i", "n", "d">>, T_IndianapolisColts>>,
      <<<<"j", "a", "x">>, T_JacksonvilleJaguars>>,
      <<<<"k", "a", "n">>, T_KansasCityChiefs>>,
      <<<<"k", "c">>, T_KansasCityChiefs>>,
      <<<<"l", "v">>, T_LasVegasRaiders>>,
      <<<<"l", "a", "c">>, T_LosAngelesChargers>>,
      <<<<"l", "a", "r">>, T_LosAngelesRams>>,
      <<<<"m", "i", "a">>, T_MiamiDolphins>>,
      <<<<"m", "i", "n">>, T_MinnesotaVikings>>,
      <<<<"n", "e">>, T_NewEnglandPatriots>>,
      <<<<"n", "o">>, T_NewOrleansSaints>>,
      <<<<"n", "y", "g">>, T_NewYorkGiants>>,
      <<<<"n", "y", "j">>, T_NewYorkJets>>,
      <<<<"p", "h", "i">>, T_PhiladelphiaEagles>>,
      <<<<"p", "i", "t">>, T_PittsburghSteelers>>,
      <<<<"s", "f">>, T_SanFranciscoFortyniners>>,
      <<<<"s", "e", "a">>, T_SeattleSeahawks>>,
      <<<<"t", "b">>, T_TampaBayBuccaneers>>,
      <<<<"t", "e", "n">>, T_TennesseeTitans>>,
      <<<<"w", "a", "s">>, T_WashingtonFootballTeam>>,
      <<<<"r", "a", "v">>, T_BaltimoreRavens>>,
      <<<<"j", "a", "g">>, T_JacksonvilleJaguars>>
    >>
\* the month names strptime's %b accepts (C locale)
MonthsAbbr ==
    <<<<"J", "a", "n">>,
      <<"F", "e", "b">>,
      <<"M", "a", "r">>,
      <<"A", "p", "r">>,
      <<"M", "a", "y">>,
      <<"J", "u", "n">>,
      <<"J", "u", "l">>,
      <<"A", "u", "g">>,
      <<"S", "e", "p">>,
      <<"O", "c", "t">>,
      <<"N", "o", "v">>,
      <<"D", "e", "c">>>>

\* the month names strptime's %B accepts (C locale)
MonthsFull ==
    <<<<"J", "a", "n", "u", "a", "r", "y">>,
      <<"F", "e", "b", "r", "u", "a", "r", "y">>,
      <<"M", "a", "r", "c", "h">>,
      <<"A", "p", "r", "i", "l">>,
      <<"M", "a", "y">>,
      <<"J", "u", "n", "e">>,
      <<"J", "u", "l", "y">>,
      <<"A", "u", "g", "u", "s", "t">>,
      <<"S", "e", "p", "t", "e", "m", "b", "e", "r">>,
      <<"O", "c", "t", "o", "b", "e", "r">>,
      <<"N", "o", "v", "e", "m", "b", "e", "r">>,
      <<"D", "e", "c", "e", "m", "b", "e", "r">>>>

\* "/boxscores/"
STR_BOXSCORES ==
    <<"/", "b", "o", "x", "s", "c", "o", "r", "e", "s", "/">>

\* ".htm"
STR_DOT_HTM ==
    <<".", "h", "t", "m">>

\* "rush"
STR_RUSH ==
    <<"r", "u", "s", "h">>

\* "yds"
STR_YDS ==
    <<"y", "d", "s">>

\* "tds"
STR_TDS ==
    <<"t", "d", "s">>

\* "net"
STR_NET ==
    <<"n", "e", "t">>

\* "pass"
STR_PASS ==
    <<"p", "a", "s", "s">>
\* team_abbr_map.get(abbr)
RegistryGet(abbr) ==
    IF \E i \in 1..Len(team_abbr_map) : team_abbr_map[i][1] = abbr
    THEN Some(team_abbr_map[CHOOSE i \in 1..Len(team_abbr_map) :
                                team_abbr_map[i][1] = abbr][2])
    ELSE None

\* UrlMatchAt with the token matched in any case, as under re.IGNORECASE.
UrlMatchAt_AnyCase(href, i, k) ==
    /\ i + 7 + k + 4 <= Len(href)
    /\ \A j \in i..(i + 7) : IsDigit(href[j])
    /\ \A j \in (i + 8)..(i + 7 + k) : IsLowerAZ(href[j]) \/ IsUpperAZ(href[j])
    /\ SubSeq(href, i + 8 + k, i + 11 + k) = STR_DOT_HTM

\* r'(\d{8})([a-z]{2,3})\.htm' matched at position i with a token of k letters
UrlMatchAt(href, i, k) ==
    /\ i + 7 + k + 4 <= Len(href)
    /\ \A j \in i..(i + 7) : IsDigit(href[j])
    /\ \A j \in (i + 8)..(i + 7 + k) : IsLowerAZ(href[j])
    /\ SubSeq(href, i + 8 + k, i + 11 + k) = STR_DOT_HTM

\* line 233-235: re.search(...).group(2): the leftmost match, the token
\* greedy (three letters before two); None when nothing matches
HomeAbbr(href) ==
    LET starts == {i \in 1..Len(href) :
                      UrlMatchAt(href, i, 3) \/ UrlMatchAt(href, i, 2)}
    IN  IF starts = {} THEN None
        ELSE LET i == CHOOSE x \in starts : \A y \in starts : x <= y
                 k == IF UrlMatchAt(href, i, 3) THEN 3 ELSE 2
             IN  Some(SubSeq(href, i + 8, i + 7 + k))

\* FuzzyMatch without the two lower() calls.
FuzzyMatch_CaseSensitive(home_team_name, winner_team) ==
    LET words == SplitWS(home_team_name)
    IN  \E i \in 1..Len(words) :
            /\ Len(words[i]) > 3
            /\ Contains(winner_team, words[i])

\* line 251: any(word.lower() in winner_team.lower()
\*               for word in home_team_name.split() if len(word) > 3)
FuzzyMatch(home_team_name, winner_team) ==
    LET words == SplitWS(home_team_name)
    IN  \E i \in 1..Len(words) :
            /\ Len(words[i]) > 3
            /\ Contains(Lower(winner_team), Lower(words[i]))

\* Falsy taking only None for false, an empty string for true.
Falsy_NoneOnly(o) == o = None

\* "not x" for a Python value that is None or a string
Falsy(o) == o = None \/ Get(o) = <<>>

WinnerHome(wt, ws, lt, ls, how) ==
    [home_team |-> Some(wt), home_score |-> Some(ws),
     away_team |-> Some(lt), away_score |-> Some(ls), path |-> how]

\* LoserHome with the scores left with the rows they were read from.
LoserHome_ScoresNotSwapped(wt, ws, lt, ls, how) ==
    [home_team |-> Some(lt), home_score |-> Some(ws),
     away_team |-> Some(wt), away_score |-> Some(ls), path |-> how]

LoserHome(wt, ws, lt, ls, how) ==
    [home_team |-> Some(lt), home_score |-> Some(ls),
     away_team |-> Some(wt), away_score |-> Some(ws), path |-> how]

Unresolved ==
    [home_team |-> None, home_score |-> None,
     away_team |-> None, away_score |-> None, path |-> "none"]

\* MatchHome with the assignments of the two exact branches exchanged.
MatchHome_ExactSwapped(home_team_name, wt, ws, lt, ls) ==
    IF home_team_name = Some(wt) THEN LoserHome(wt, ws, lt, ls, "exact_winner")
    ELSE IF home_team_name = Some(lt) THEN WinnerHome(wt, ws, lt, ls, "exact_loser")
    ELSE IF IsSome(home_team_name) /\ FuzzyMatch(Get(home_team_name), wt)
         THEN WinnerHome(wt, ws, lt, ls, "fuzzy_winner")
         ELSE LoserHome(wt, ws, lt, ls, "no_match_loser")

\* MatchHome with the word match tried before the exact match on the loser.
MatchHome_FuzzyFirst(home_team_name, wt, ws, lt, ls) ==
    IF home_team_name = Some(wt) THEN WinnerHome(wt, ws, lt, ls, "exact_winner")
    ELSE IF IsSome(home_team_name) /\ FuzzyMatch(Get(home_team_name), wt)
         THEN WinnerHome(wt, ws, lt, ls, "fuzzy_winner")
         ELSE IF home_team_name = Some(lt)
              THEN LoserHome(wt, ws, lt, ls, "exact_loser")
              ELSE LoserHome(wt, ws, lt, ls, "no_match_loser")

\* lines 239-260: home_team_name is team_abbr_map.get(home_team_abbr)
MatchHome(home_team_name, wt, ws, lt, ls) ==
    IF home_team_name = Some(wt) THEN WinnerHome(wt, ws, lt, ls, "exact_winner")
    ELSE IF home_team_name = Some(lt) THEN LoserHome(wt, ws, lt, ls, "exact_loser")
    ELSE IF IsSome(home_team_name) /\ FuzzyMatch(Get(home_team_name), wt)
         THEN WinnerHome(wt, ws, lt, ls, "fuzzy_winner")
         ELSE LoserHome(wt, ws, lt, ls, "no_match_loser")

\* line 223: gamelink_td.find('a', href=re.compile(r'/boxscores/'))
BoxscoreLink(href) ==
    IF IsSome(href) /\ Contains(Get(href), STR_BOXSCORES) THEN href ELSE None

\* lines 226-230
GameUrl(href) ==
    IF StartsWith(href, <<"/">>) THEN PFR_BASE_URL \o href
    ELSE PFR_BASE_URL \o <<"/">> \o href

\* lines 222-260: the assignment the boxscore link leads to, if any
FromLink(link, wt, ws, lt, ls) ==
    IF IsSome(link) /\ IsSome(HomeAbbr(Get(link)))
    THEN MatchHome(RegistryGet(Get(HomeAbbr(Get(link)))), wt, ws, lt, ls)
    ELSE Unresolved

\* lines 262-268: the fallback when home or away is still unset or empty
WithFallback(r, wt, ws, lt, ls) ==
    IF Falsy(r.home_team) \/ Falsy(r.away_team)
    THEN WinnerHome(wt, ws, lt, ls, "default")
    ELSE r

\* lines 193-268: home, away and the boxscore url of a block whose
\* winner and loser were read
Resolve(href, wt, ws, lt, ls) ==
    LET link == BoxscoreLink(href)
        r == WithFallback(FromLink(link, wt, ws, lt, ls), wt, ws, lt, ls)
    IN  [home_team |-> r.home_team, home_score |-> r.home_score,
         away_team |-> r.away_team, away_score |-> r.away_score,
         path |-> r.path,
         game_url |-> IF IsSome(link) THEN Some(GameUrl(Get(link))) ELSE None]

(***************************************************************************)
(* datetime.strptime(date_text, fmt).strftime('%Y-%m-%d') for the formats  *)
(* '%b %d, %Y' and '%B %d, %Y': month name (any case), whitespace, a day   *)
(* of one or two digits, a comma, whitespace, a year of four digits, and   *)
(* nothing more; the day must exist in that month.                         *)
(***************************************************************************)
IsLeap(y) == (y % 4 = 0 /\ y % 100 # 0) \/ y % 400 = 0

DaysInMonth(y, m) ==
    IF m = 2 THEN (IF IsLeap(y) THEN 29 ELSE 28)
    ELSE IF m \in {4, 6, 9, 11} THEN 30 ELSE 31

\* the day the directive %d reads at the head of s: its digits, or None
DayToken(s) ==
    IF Len(s) >= 2 /\ IsDigit(s[1]) /\ IsDigit(s[2])
       /\ DigitsVal(SubSeq(s, 1, 2)) \in 1..31
    THEN Some(SubSeq(s, 1, 2))
    ELSE IF Len(s) >= 1 /\ IsDigit(s[1]) /\ s[1] # "0"
         THEN Some(SubSeq(s, 1, 1))
         ELSE None

FormatDate(y, m, d) ==
    ZeroPad(NatToStr(y), 4) \o <<"-">> \o ZeroPad(NatToStr(m), 2)
        \o <<"-">> \o ZeroPad(NatToStr(d), 2)

\* the rest of the text after the month name
AfterMonth(rest, m) ==
    LET r1 == LStrip(rest)
        day == DayToken(r1)
    IN  IF rest = <<>> \/ ~IsSpace(rest[1]) \/ day = None THEN None
        ELSE LET r2 == SubSeq(r1, Len(Get(day)) + 1, Len(r1))
                 r3 == IF r2 # <<>> THEN LStrip(Tail(r2)) ELSE <<>>
             IN  IF /\ Len(r2) >= 2
                    /\ r2[1] = ","
                    /\ IsSpace(r2[2])
                    /\ Len(r3) = 4
                    /\ AllDigits(r3)
                    /\ DigitsVal(r3) >= 1
                    /\ DigitsVal(Get(day)) <= DaysInMonth(DigitsVal(r3), m)
                 THEN Some(FormatDate(DigitsVal(r3), m, DigitsVal(Get(day))))
                 ELSE None

StrpDate(text, months) ==
    LET t == Lower(text)
        ms == {m \in 1..12 : StartsWith(t, Lower(months[m]))}
    IN  IF ms = {} THEN None
        ELSE LET m == CHOOSE x \in ms : TRUE
             IN  AfterMonth(SubSeq(t, Len(months[m]) + 1, Len(t)), m)

\* lines 150-164: date_str
DateStr(date) ==
    IF date = None THEN None
    ELSE LET date_text == Strip(Get(date))
         IN  IF IsSome(StrpDate(date_text, MonthsAbbr))
             THEN StrpDate(date_text, MonthsAbbr)
             ELSE StrpDate(date_text, MonthsFull)

\* ReadRow taking a score that is no integer for 0 instead of failing.
ReadRow_BadScoreAsZero(row) ==
    IF row = None \/ Get(row).link = None \/ Get(row).score = None THEN None
    ELSE IF ParseInt(Strip(Get(Get(row).score))) = None
         THEN Some([team |-> Strip(Get(Get(row).link)), score |-> 0])
         ELSE Some([team |-> Strip(Get(Get(row).link)),
                    score |-> Get(ParseInt(Strip(Get(Get(row).score))))])

\* lines 174-191 for one row: (team name, score), or None when the team
\* link or the score cell is missing or int() raises
ReadRow(row) ==
    IF row = None \/ Get(row).link = None \/ Get(row).score = None THEN None
    ELSE IF ParseInt(Strip(Get(Get(row).score))) = None THEN None
         ELSE Some([team |-> Strip(Get(Get(row).link)),
                    score |-> Get(ParseInt(Strip(Get(Get(row).score))))])

\* lines 143-268: the locals of parse_game_summary when it reaches line 270,
\* or None when it has returned None before (a missing teams table, row,
\* team link or score cell, or a score that is no integer)
Extract(block) ==
    IF ~block.teams \/ ReadRow(block.winner) = None \/ ReadRow(block.loser) = None
    THEN None
    ELSE LET w == Get(ReadRow(block.winner))
             l == Get(ReadRow(block.loser))
             r == Resolve(block.href, w.team, w.score, l.team, l.score)
         IN  Some([date_str |-> DateStr(block.date),
                   winner_team |-> Some(w.team), winner_score |-> Some(w.score),
                   loser_team |-> Some(l.team), loser_score |-> Some(l.score),
                   path |-> r.path, fetched |-> "not_called",
                   home_team |-> r.home_team, away_team |-> r.away_team,
                   home_score |-> r.home_score, away_score |-> r.away_score,
                   game_url |-> r.game_url,
                   home_rushing |-> None, away_rushing |-> None,
                   home_passing |-> None, away_passing |-> None])

(***************************************************************************)
(* The boxscore page: None when it has no div_team_stats table, else the   *)
(* rows of that table, each with the text of its <th>, if any, and of its  *)
(* <td> cells.                                                             *)
(***************************************************************************)
NoStats ==
    [home_rushing |-> None, away_rushing |-> None,
     home_passing |-> None, away_passing |-> None]

\* int(text.replace(',', ''))
ParseYards(text) == ParseInt(RemoveChar(text, ","))

\* ScanRushing reading the first cell for the home side and the second for
\* the away side.
ScanRushing_SidesSwapped(st, away_value, home_value) ==
    LET away_parts == SplitOn(home_value, "-")
        home_parts == SplitOn(away_value, "-")
    IN  IF Len(away_parts) >= 2 /\ Len(home_parts) >= 2
        THEN IF ParseYards(away_parts[2]) = None THEN st
             ELSE IF ParseYards(home_parts[2]) = None
                  THEN [st EXCEPT !.away_rushing = ParseYards(away_parts[2])]
                  ELSE [st EXCEPT !.away_rushing = ParseYards(away_parts[2]),
                                  !.home_rushing = ParseYards(home_parts[2])]
        ELSE st

\* lines 312-321: int() of the away cell is evaluated and assigned before
\* int() of the home cell; a ValueError leaves what was not yet assigned
ScanRushing(st, away_value, home_value) ==
    LET away_parts == SplitOn(away_value, "-")
        home_parts == SplitOn(home_value, "-")
    IN  IF Len(away_parts) >= 2 /\ Len(home_parts) >= 2
        THEN IF ParseYards(away_parts[2]) = None THEN st
             ELSE IF ParseYards(home_parts[2]) = None
                  THEN [st EXCEPT !.away_rushing = ParseYards(away_parts[2])]
                  ELSE [st EXCEPT !.away_rushing = ParseYards(away_parts[2]),
                                  !.home_rushing = ParseYards(home_parts[2])]
        ELSE st

\* lines 325-326 and 329-330
ScanPassing(st, away_value, home_value) ==
    IF ParseYards(away_value) = None THEN st
    ELSE IF ParseYards(home_value) = None
         THEN [st EXCEPT !.away_passing = ParseYards(away_value)]
         ELSE [st EXCEPT !.away_passing = ParseYards(away_value),
                         !.home_passing = ParseYards(home_value)]

\* line 309
IsRushingRow(stat_name) ==
    /\ Contains(stat_name, STR_RUSH)
    /\ (Contains(stat_name, STR_YDS) \/ Contains(stat_name, STR_TDS))

\* lines 324 and 327
IsPassingRow(stat_name) ==
    \/ (/\ Contains(stat_name, STR_NET)
        /\ Contains(stat_name, STR_PASS)
        /\ Contains(stat_name, STR_YDS))
    \/ (/\ Contains(stat_name, STR_PASS)
        /\ Contains(stat_name, STR_YDS)
        /\ ~Contains(stat_name, STR_NET))

\* lines 301-332: one row of the table
ScanRow(st, row) ==
    IF row.header = None \/ Len(row.cells) < 2 THEN st
    ELSE LET stat_name == Lower(Strip(Get(row.header)))
         IN  IF IsRushingRow(stat_name)
             THEN ScanRushing(st, Strip(row.cells[1]), Strip(row.cells[2]))
             ELSE IF IsPassingRow(stat_name)
                  THEN ScanPassing(st, Strip(row.cells[1]), Strip(row.cells[2]))
                  ELSE st

\* lines 299-300: for row in rows
RECURSIVE ScanRows(_, _)
ScanRows(st, rows) ==
    IF rows = <<>> THEN st ELSE ScanRows(ScanRow(st, Head(rows)), Tail(rows))

\* lines 289-332: the four yardage locals after the boxscore page is read
ScanStats(stats_page) ==
    IF stats_page = None THEN NoStats ELSE ScanRows(NoStats, Get(stats_page))

\* line 338: the condition under which parse_game_summary returns None
Rejected(l) ==
    \/ Falsy(l.date_str)
    \/ Falsy(l.home_team)
    \/ Falsy(l.away_team)
    \/ l.home_score = None
    \/ l.away_score = None

\* lines 341-351: the dictionary parse_game_summary returns
GameData(l) ==
    [Date |-> Get(l.date_str),
     HomeTeam |-> Get(l.home_team),
     AwayTeam |-> Get(l.away_team),
     HomeScore |-> Get(l.home_score),
     AwayScore |-> Get(l.away_score),
     HomeRushingYards |-> l.home_rushing,
     AwayRushingYards |-> l.away_rushing,
     HomePassingYards |-> l.home_passing,
     AwayPassingYards |-> l.away_passing]

(***************************************************************************)
(* The locals of parse_game_summary before any of them is assigned.        *)
(***************************************************************************)
NoGame ==
    [date_str |-> None, winner_team |-> None, winner_score |-> None,
     loser_team |-> None, loser_score |-> None, path |-> "none",
     fetched |-> "not_called", home_team |-> None, away_team |-> None,
     home_score |-> None, away_score |-> None, game_url |-> None,
     home_rushing |-> None, away_rushing |-> None,
     home_passing |-> None, away_passing |-> None]

(***************************************************************************)
(* SpecFetch: one call of fetch_with_retry(url), for the urls the crawler  *)
(* builds and every answer the server may give to each GET.                *)
(***************************************************************************)
DirectUrls ==
    {PFR_BASE_URL \o PATH_WEEK, PFR_BASE_URL \o PATH_BOX_KAN,
     PFR_BASE_URL \o PATH_BOX_429}

InitFetch ==
    /\ pc = "fetch_get"
    /\ caller = "direct"
    /\ furl \in DirectUrls
    /\ attempt = 0
    /\ gets = 0
    /\ sleeps = 0
    /\ slept = None
    /\ resp = NoResp
    /\ fresult = Pending
    /\ page = <<>>
    /\ idx = 0
    /\ g = NoGame
    /\ boxscore = None
    /\ games = <<>>
    /\ ret = None
    /\ robots = 0
    /\ delays = 0
    /\ calls = <<>>
    /\ week_response = "not_called"
    /\ outcome = "running"
    /\ table = None
    /\ args = [year |-> 2023, week |-> <<"1">>]

NextFetch == FetchStep

SpecFetch == InitFetch /\ [][NextFetch]_vars

(***************************************************************************)
(* The inputs the crawl is explored on.                                    *)
(***************************************************************************)
\* "Washington Commanders"
N_WashingtonCommanders ==
    <<"W", "a", "s", "h", "i", "n", "g", "t", "o", "n", " ", "C", "o",
      "m", "m", "a", "n", "d", "e", "r", "s">>

\* "kansas city chiefs"
N_KansasCityLower ==
    <<"k", "a", "n", "s", "a", "s", " ", "c", "i", "t", "y", " ", "c",
      "h", "i", "e", "f", "s">>

\* ""
N_Empty ==
    <<>>

\* "/boxscores/202309070kan.htm"
HREF_KAN ==
    <<"/", "b", "o", "x", "s", "c", "o", "r", "e", "s", "/", "2", "0",
      "2", "3", "0", "9", "0", "7", "0", "k", "a", "n", ".", "h", "t",
      "m">>

\* "/boxscores/202309100was.htm"
HREF_WAS ==
    <<"/", "b", "o", "x", "s", "c", "o", "r", "e", "s", "/", "2", "0",
      "2", "3", "0", "9", "1", "0", "0", "w", "a", "s", ".", "h", "t",
      "m">>

\* "/boxscores/202309110nyj.htm"
HREF_NYJ ==
    <<"/", "b", "o", "x", "s", "c", "o", "r", "e", "s", "/", "2", "0",
      "2", "3", "0", "9", "1", "1", "0", "n", "y", "j", ".", "h", "t",
      "m">>

\* "/boxscores/202309100rai.htm"
HREF_RAI ==
    <<"/", "b", "o", "x", "s", "c", "o", "r", "e", "s", "/", "2", "0",
      "2", "3", "0", "9", "1", "0", "0", "r", "a", "i", ".", "h", "t",
      "m">>

\* "/boxscores/202309100gb.htm"
HREF_GB ==
    <<"/", "b", "o", "x", "s", "c", "o", "r", "e", "s", "/", "2", "0",
      "2", "3", "0", "9", "1", "0", "0", "g", "b", ".", "h", "t", "m">>

\* "/boxscores/202309070KAN.htm"
HREF_UPPER ==
    <<"/", "b", "o", "x", "s", "c", "o", "r", "e", "s", "/", "2", "0",
      "2", "3", "0", "9", "0", "7", "0", "K", "A", "N", ".", "h", "t",
      "m">>

\* "/boxscores/2023090kan.htm"
HREF_SHORT_DATE ==
    <<"/", "b", "o", "x", "s", "c", "o", "r", "e", "s", "/", "2", "0",
      "2", "3", "0", "9", "0", "k", "a", "n", ".", "h", "t", "m">>

\* "/boxscores/202309070kanx.htm"
HREF_LONG_TOKEN ==
    <<"/", "b", "o", "x", "s", "c", "o", "r", "e", "s", "/", "2", "0",
      "2", "3", "0", "9", "0", "7", "0", "k", "a", "n", "x", ".", "h",
      "t", "m">>

\* "/games/202309070kan.htm"
HREF_NOT_BOXSCORE ==
    <<"/", "g", "a", "m", "e", "s", "/", "2", "0", "2", "3", "0", "9",
      "0", "7", "0", "k", "a", "n", ".", "h", "t", "m">>

\* "x/boxscores/202309070bal.htm"
HREF_RELATIVE ==
    <<"x", "/", "b", "o", "x", "s", "c", "o", "r", "e", "s", "/", "2",
      "0", "2", "3", "0", "9", "0", "7", "0", "b", "a", "l", ".", "h",
      "t", "m">>

\* "Sep 7, 2023"
DATE_SEP7 ==
    <<"S", "e", "p", " ", "7", ",", " ", "2", "0", "2", "3">>

\* "September 10, 2023"
DATE_SEP10_FULL ==
    <<"S", "e", "p", "t", "e", "m", "b", "e", "r", " ", "1", "0", ",",
      " ", "2", "0", "2", "3">>

\* "Feb 30, 2023"
DATE_FEB30 ==
    <<"F", "e", "b", " ", "3", "0", ",", " ", "2", "0", "2", "3">>

\* "2023-09-07"
DATE_ISO ==
    <<"2", "0", "2", "3", "-", "0", "9", "-", "0", "7">>

\* "24"
SCORE_24 ==
    <<"2", "4">>

\* "20"
SCORE_20 ==
    <<"2", "0">>

\* "0"
SCORE_0 ==
    <<"0">>

\* "OT"
SCORE_BAD ==
    <<"O", "T">>

\* "Rush-Yds-TDs"
H_RUSH ==
    <<"R", "u", "s", "h", "-", "Y", "d", "s", "-", "T", "D", "s">>

\* "Net Pass Yards"
H_NET_PASS_YARDS ==
    <<"N", "e", "t", " ", "P", "a", "s", "s", " ", "Y", "a", "r", "d",
      "s">>

\* "Net Pass Yds"
H_NET_PASS_YDS ==
    <<"N", "e", "t", " ", "P", "a", "s", "s", " ", "Y", "d", "s">>

\* "Pass Yds"
H_PASS_YDS ==
    <<"P", "a", "s", "s", " ", "Y", "d", "s">>

\* "Total Yards"
H_TOTAL_YARDS ==
    <<"T", "o", "t", "a", "l", " ", "Y", "a", "r", "d", "s">>

\* "28-140-1"
CELL_28_140_1 ==
    <<"2", "8", "-", "1", "4", "0", "-", "1">>

\* "22-85-0"
CELL_22_85_0 ==
    <<"2", "2", "-", "8", "5", "-", "0">>

\* "25-120-1"
CELL_25_120_1 ==
    <<"2", "5", "-", "1", "2", "0", "-", "1">>

\* "30-95-0"
CELL_30_95_0 ==
    <<"3", "0", "-", "9", "5", "-", "0">>

\* "abc"
CELL_ABC ==
    <<"a", "b", "c">>

\* "30-x-0"
CELL_30_X_0 ==
    <<"3", "0", "-", "x", "-", "0">>

\* "210"
CELL_210 ==
    <<"2", "1", "0">>

\* "180"
CELL_180 ==
    <<"1", "8", "0">>

\* "1,210"
CELL_1_210 ==
    <<"1", ",", "2", "1", "0">>

\* "350"
CELL_350 ==
    <<"3", "5", "0">>

\* "275"
CELL_275 ==
    <<"2", "7", "5">>
Row(name, score) == Some([link |-> Some(name), score |-> Some(score)])

Block(date, wname, wscore, lname, lscore, href) ==
    [teams |-> TRUE, date |-> date, winner |-> Row(wname, wscore),
     loser |-> Row(lname, lscore), href |-> href]

\* Team names as the week page may print them: registry names, a name the
\* registry does not hold, a name in another case, an empty link text.
Names ==
    {T_KansasCityChiefs, T_BaltimoreRavens, T_NewYorkGiants,
     N_WashingtonCommanders, N_KansasCityLower, N_Empty}

\* What the gamelink cell may hold: no anchor, or an anchor with this href.
Hrefs ==
    {None, Some(HREF_KAN), Some(HREF_WAS), Some(HREF_NYJ), Some(HREF_RAI),
     Some(HREF_GB), Some(HREF_UPPER), Some(HREF_SHORT_DATE),
     Some(HREF_LONG_TOKEN), Some(HREF_NOT_BOXSCORE), Some(HREF_RELATIVE)}

\* Well-formed blocks: every pair of names with every gamelink.
ResolveBlocks ==
    {Block(Some(DATE_SEP7), w, SCORE_24, l, SCORE_20, h) :
        w \in Names, l \in Names, h \in Hrefs}

\* The block of the end-to-end scenario.
FixtureBlock ==
    Block(Some(DATE_SEP7), T_KansasCityChiefs, SCORE_24, T_BaltimoreRavens,
          SCORE_20, Some(HREF_KAN))

\* A second game, three days later, the home team losing.
SecondBlock ==
    Block(Some(DATE_SEP10_FULL), T_NewYorkGiants, SCORE_24,
          N_WashingtonCommanders, SCORE_0, Some(HREF_WAS))

\* Blocks with a part missing or malformed.
DefectBlocks ==
    {[FixtureBlock EXCEPT !.teams = FALSE],
     [FixtureBlock EXCEPT !.date = None],
     [FixtureBlock EXCEPT !.date = Some(DATE_FEB30)],
     [FixtureBlock EXCEPT !.date = Some(DATE_ISO)],
     [FixtureBlock EXCEPT !.winner = None],
     [FixtureBlock EXCEPT !.loser = None],
     [FixtureBlock EXCEPT !.winner = Some([link |-> None, score |-> Some(SCORE_24)])],
     [FixtureBlock EXCEPT !.winner = Some([link |-> Some(T_KansasCityChiefs), score |-> None])],
     [FixtureBlock EXCEPT !.loser = Some([link |-> None, score |-> Some(SCORE_20)])],
     [FixtureBlock EXCEPT !.loser = Some([link |-> Some(T_BaltimoreRavens), score |-> None])],
     [FixtureBlock EXCEPT !.winner = Row(T_KansasCityChiefs, SCORE_BAD)],
     [FixtureBlock EXCEPT !.loser = Row(T_BaltimoreRavens, SCORE_BAD)]}

\* The blocks pages of several games are built from.
SeqBlocks ==
    {FixtureBlock, SecondBlock, [FixtureBlock EXCEPT !.winner = None]}

\* The most game summary blocks of a page of several games.
MaxBlocks == 2

\* The sequences of n different elements of S: a week page lists a game
\* once.
RECURSIVE SeqsOf(_, _)
SeqsOf(S, n) ==
    IF n = 0 THEN {<<>>}
    ELSE UNION {{Append(s, x) : x \in S \ {s[i] : i \in 1..Len(s)}} :
                   s \in SeqsOf(S, n - 1)}

\* What soup.find_all (lines 395-403) may return for the week page.
Pages ==
    {<<>>}
        \cup {<<b>> : b \in ResolveBlocks \cup DefectBlocks \cup SeqBlocks}
        \cup UNION {SeqsOf(SeqBlocks, n) : n \in 2..MaxBlocks}

StatRow(header, away_cell, home_cell) ==
    [header |-> Some(header), cells |-> <<away_cell, home_cell>>]

\* The team-stats table of the end-to-end scenario.
FixtureStats ==
    Some(<<StatRow(H_RUSH, CELL_28_140_1, CELL_22_85_0),
           StatRow(H_NET_PASS_YARDS, CELL_210, CELL_180)>>)

\* What the boxscore page may hold.
StatsPages ==
    {None,
     FixtureStats,
     Some(<<StatRow(H_RUSH, CELL_25_120_1, CELL_30_95_0),
            StatRow(H_NET_PASS_YDS, CELL_1_210, CELL_180),
            StatRow(H_TOTAL_YARDS, CELL_350, CELL_275)>>),
     Some(<<StatRow(H_RUSH, CELL_ABC, CELL_30_95_0),
            StatRow(H_PASS_YDS, CELL_210, CELL_ABC)>>),
     Some(<<StatRow(H_RUSH, CELL_30_X_0, CELL_30_95_0),
            [header |-> None, cells |-> <<CELL_210, CELL_180>>],
            [header |-> Some(H_PASS_YDS), cells |-> <<CELL_210>>],
            StatRow(H_PASS_YDS, CELL_ABC, CELL_180)>>)}

\* What check_robots_txt may meet: a policy that allows the path, one that
\* disallows it, or a robots.txt that cannot be read.
RobotsAnswers ==
    {"allow", "disallow", "error", "http_403", "http_500"}

\* lines 39-47: the value check_robots_txt returns.  RobotFileParser.read()
\* lets an unreachable host or undecodable body raise, and the except clause
\* of line 44 returns True; it swallows an HTTP error status itself: 401 and
\* 403 set disallow_all and a 5xx sets nothing, so that can_fetch() answers
\* False for a policy that was never read.
RobotsAllowed(answer) ==
    CASE answer = "allow" -> TRUE
      [] answer = "disallow" -> FALSE
      [] answer = "error" -> TRUE
      [] answer = "http_403" -> FALSE
      [] answer = "http_500" -> FALSE

\* The calls the crawler makes around a page fetch, as entries of calls.
RobotsCall(answer) == <<"check_robots_txt", answer>>

SleepCall == <<"time.sleep", "CRAWL_DELAY">>

FetchCall == <<"fetch_with_retry", "url">>

(***************************************************************************)
(* fetch_week_games and parse_game_summary: the steps.                     *)
(***************************************************************************)
\* The locals of a fetch_with_retry call are gone once its caller has taken
\* its result.
LeaveFetch ==
    /\ caller' = "none"
    /\ furl' = <<>>
    /\ attempt' = 0
    /\ gets' = 0
    /\ sleeps' = 0
    /\ slept' = None
    /\ resp' = NoResp
    /\ fresult' = Pending

(***************************************************************************)
(* main, up to its call of fetch_week_games (lines 455-489), and           *)
(* get_week_url.                                                           *)
(***************************************************************************)
\* "1"
W_1 ==
    <<"1">>

\* "18"
W_18 ==
    <<"1", "8">>

\* "0"
W_0 ==
    <<"0">>

\* "19"
W_19 ==
    <<"1", "9">>

\* "01"
W_01 ==
    <<"0", "1">>

\* "+1"
W_PLUS_1 ==
    <<"+", "1">>

\* "abc"
W_ABC ==
    <<"a", "b", "c">>

\* ""
W_EMPTY ==
    <<>>

\* "wild-card"
W_WILD_CARD ==
    <<"w", "i", "l", "d", "-", "c", "a", "r", "d">>

\* "divisional"
W_DIVISIONAL ==
    <<"d", "i", "v", "i", "s", "i", "o", "n", "a", "l">>

\* "conference"
W_CONFERENCE ==
    <<"c", "o", "n", "f", "e", "r", "e", "n", "c", "e">>

\* "super-bowl"
W_SUPER_BOWL ==
    <<"s", "u", "p", "e", "r", "-", "b", "o", "w", "l">>

\* "Wild-Card"
W_WILD_CARD_UPPER ==
    <<"W", "i", "l", "d", "-", "C", "a", "r", "d">>

\* "/years/"
STR_YEARS ==
    <<"/", "y", "e", "a", "r", "s", "/">>

\* "/week_"
STR_WEEK_ ==
    <<"/", "w", "e", "e", "k", "_">>

\* The character SUPERSCRIPT TWO, written as one element of a string.
SUP2 == "sup2"

\* "²"
W_SUP2 == <<SUP2>>

\* str.isdigit(): the string is not empty and every character is a digit; the
\* superscript digits count as digits
StrIsDigit(s) == s # <<>> /\ \A i \in 1..Len(s) : IsDigit(s[i]) \/ s[i] = SUP2

\* A Python value that is an int or a str.
PyInt(n) == [type |-> "int", n |-> n, s |-> <<>>]

PyStr(s) == [type |-> "str", n |-> 0, s |-> s]

\* str(v) inside an f-string
Format(v) == IF v.type = "int" THEN NatToStr(v.n) ELSE v.s

\* lines 126-130
get_week_url(year, week) ==
    IF week.type = "int"
    THEN PFR_BASE_URL \o STR_YEARS \o NatToStr(year) \o STR_WEEK_
             \o Format(week) \o STR_DOT_HTM
    ELSE PFR_BASE_URL \o STR_YEARS \o NatToStr(year) \o <<"/">>
             \o Format(week) \o STR_DOT_HTM

\* line 466: the playoff rounds
PlayoffRounds == {W_WILD_CARD, W_DIVISIONAL, W_CONFERENCE, W_SUPER_BOWL}

\* lines 461-468: what the validation of --week comes to: the run goes on
\* ("ok"), an error is printed and main returns ("error"), or int() raises
\* ValueError, which nothing catches ("ValueError")
WeekCheck(week) ==
    IF StrIsDigit(week)
    THEN IF ParseInt(week) = None THEN "ValueError"
         ELSE IF Get(ParseInt(week)) < 1 \/ Get(ParseInt(week)) > 18
              THEN "error"
              ELSE "ok"
    ELSE IF week \notin PlayoffRounds THEN "error" ELSE "ok"

\* lines 458 and 485: the week main passes to get_week_url is args.week, the
\* str argparse produced (type=str, line 450)
WeekArgument(week) == PyStr(week)

\* line 485: week_url
WeekUrl == get_week_url(args.year, WeekArgument(args.week))

\* lines 372-375: robots.txt disallows the week page
WeekRobotsDisallowed ==
    /\ pc = "week_robots"
    /\ \E a \in RobotsAnswers :
          /\ ~RobotsAllowed(a)
          /\ calls' = <<RobotsCall(a)>>
    /\ robots' = robots + 1
    /\ week_response' = "robots_disallowed"
    /\ pc' = "done"
    /\ UNCHANGED fvars
    /\ UNCHANGED <<page, idx, g, boxscore, games, ret, delays>>
    /\ UNCHANGED <<outcome, table>>
    /\ UNCHANGED args

\* lines 372-378: the week page may be fetched; fetch_with_retry is called
WeekRobotsAllowed ==
    /\ pc = "week_robots"
    /\ \E a \in RobotsAnswers :
          /\ RobotsAllowed(a)
          /\ calls' = <<RobotsCall(a), FetchCall>>
    /\ robots' = robots + 1
    /\ EnterFetch(WeekUrl, "week")
    /\ UNCHANGED <<page, idx, g, boxscore, games, ret, delays>>
    /\ UNCHANGED <<week_response, outcome, table>>
    /\ UNCHANGED args

\* lines 379-381 and 418-425: fetch_with_retry returned None or raised
WeekFetchFailed ==
    /\ pc = "fetch_done"
    /\ caller = "week"
    /\ fresult.kind \in {"none", "raised"}
    /\ week_response' = fresult.kind
    /\ pc' = "done"
    /\ LeaveFetch
    /\ UNCHANGED cvars
    /\ UNCHANGED <<calls, outcome, table>>
    /\ UNCHANGED args

\* lines 383-409: the page is parsed; with no game summary the function
\* returns, else the loop starts
WeekFetched ==
    /\ pc = "fetch_done"
    /\ caller = "week"
    /\ fresult.kind = "response"
    /\ \E p \in Pages :
          /\ page' = p
          /\ pc' = IF p = <<>> THEN "done" ELSE "game"
    /\ week_response' = "response"
    /\ LeaveFetch
    /\ UNCHANGED <<idx, g, boxscore, games, ret, robots, delays>>
    /\ UNCHANGED <<calls, outcome, table>>
    /\ UNCHANGED args

\* lines 411-416: where the loop goes after block i of the page
AfterGame(i) == IF i = Len(page) THEN "done" ELSE "game"

\* lines 143-191, 353-355 and 412-413: the next block gives no game
GameDropped ==
    /\ pc = "game"
    /\ Extract(page[idx + 1]) = None
    /\ idx' = idx + 1
    /\ g' = NoGame
    /\ ret' = None
    /\ pc' = AfterGame(idx + 1)
    /\ calls' = <<>>
    /\ UNCHANGED fvars
    /\ UNCHANGED <<page, boxscore, games, robots, delays>>
    /\ UNCHANGED <<week_response, outcome, table>>
    /\ UNCHANGED args

\* lines 143-276: the next block is read and home and away are resolved
GameExtracted ==
    /\ pc = "game"
    /\ Extract(page[idx + 1]) # None
    /\ idx' = idx + 1
    /\ g' = Get(Extract(page[idx + 1]))
    /\ pc' = IF IsSome(g'.game_url) THEN "box_robots" ELSE "game_return"
    /\ calls' = <<>>
    /\ UNCHANGED fvars
    /\ UNCHANGED <<page, boxscore, games, ret, robots, delays>>
    /\ UNCHANGED <<week_response, outcome, table>>
    /\ UNCHANGED args

\* lines 279-282: robots.txt disallows the boxscore page
BoxRobotsDisallowed ==
    /\ pc = "box_robots"
    /\ \E a \in RobotsAnswers :
          /\ ~RobotsAllowed(a)
          /\ calls' = <<RobotsCall(a)>>
    /\ robots' = robots + 1
    /\ g' = [g EXCEPT !.fetched = "robots_disallowed"]
    /\ pc' = "game_return"
    /\ UNCHANGED fvars
    /\ UNCHANGED <<page, idx, boxscore, games, ret, delays>>
    /\ UNCHANGED <<week_response, outcome, table>>
    /\ UNCHANGED args

\* BoxRobotsAllowed calling fetch_with_retry without the crawl delay.
BoxRobotsAllowed_NoDelay ==
    /\ pc = "box_robots"
    /\ \E a \in RobotsAnswers :
          /\ RobotsAllowed(a)
          /\ calls' = <<RobotsCall(a), FetchCall>>
    /\ robots' = robots + 1
    /\ EnterFetch(Get(g.game_url), "boxscore")
    /\ UNCHANGED <<page, idx, g, boxscore, games, ret, delays>>
    /\ UNCHANGED <<week_response, outcome, table>>
    /\ UNCHANGED args

\* lines 279-285: the boxscore page may be fetched; after the crawl delay
\* fetch_with_retry is called
BoxRobotsAllowed ==
    /\ pc = "box_robots"
    /\ \E a \in RobotsAnswers :
          /\ RobotsAllowed(a)
          /\ calls' = <<RobotsCall(a), SleepCall, FetchCall>>
    /\ robots' = robots + 1
    /\ delays' = delays + 1
    /\ EnterFetch(Get(g.game_url), "boxscore")
    /\ UNCHANGED <<page, idx, g, boxscore, games, ret>>
    /\ UNCHANGED <<week_response, outcome, table>>
    /\ UNCHANGED args

\* BoxFetchFailed ending the loop instead of returning the game without
\* its yardage.
BoxFetchFailed_Aborts ==
    /\ pc = "fetch_done"
    /\ caller = "boxscore"
    /\ fresult.kind \in {"none", "raised"}
    /\ g' = [g EXCEPT !.fetched = fresult.kind]
    /\ pc' = "done"
    /\ LeaveFetch
    /\ UNCHANGED <<page, idx, boxscore, games, ret, robots, delays>>
    /\ UNCHANGED mvars
    /\ UNCHANGED args

\* lines 286-287 and 334-335: fetch_with_retry returned None or raised
BoxFetchFailed ==
    /\ pc = "fetch_done"
    /\ caller = "boxscore"
    /\ fresult.kind \in {"none", "raised"}
    /\ g' = [g EXCEPT !.fetched = fresult.kind]
    /\ pc' = "game_return"
    /\ LeaveFetch
    /\ UNCHANGED <<page, idx, boxscore, games, ret, robots, delays>>
    /\ UNCHANGED mvars
    /\ UNCHANGED args

\* lines 288-332: the boxscore page is read
BoxFetched ==
    /\ pc = "fetch_done"
    /\ caller = "boxscore"
    /\ fresult.kind = "response"
    /\ \E sp \in StatsPages :
          /\ boxscore' = sp
          /\ g' = [g EXCEPT !.fetched = "response",
                            !.home_rushing = ScanStats(sp).home_rushing,
                            !.away_rushing = ScanStats(sp).away_rushing,
                            !.home_passing = ScanStats(sp).home_passing,
                            !.away_passing = ScanStats(sp).away_passing]
    /\ pc' = "game_return"
    /\ LeaveFetch
    /\ UNCHANGED <<page, idx, games, ret, robots, delays>>
    /\ UNCHANGED mvars
    /\ UNCHANGED args

\* lines 337-351 and 412-414: the block is rejected or its game appended
GameReturn ==
    /\ pc = "game_return"
    /\ IF Rejected(g)
       THEN ret' = None /\ UNCHANGED games
       ELSE ret' = Some(GameData(g)) /\ games' = Append(games, GameData(g))
    /\ pc' = AfterGame(idx)
    /\ UNCHANGED fvars
    /\ UNCHANGED <<page, idx, g, boxscore, robots, delays>>
    /\ UNCHANGED mvars
    /\ UNCHANGED args

(***************************************************************************)
(* main, after fetch_week_games has returned (lines 491-513).              *)
(***************************************************************************)
\* lines 504-506 (the columns 'Home Team', ... written without the space)
column_order ==
    <<"Date", "HomeTeam", "AwayTeam", "HomeScore", "AwayScore",
      "HomeRushingYards", "AwayRushingYards",
      "HomePassingYards", "AwayPassingYards">>

\* line 499: pd.to_datetime(text, errors='coerce') of one cell: the
\* <<year, month, day>> of a 'YYYY-MM-DD' text, or None (NaT)
ToDatetime(text) ==
    IF /\ Len(text) = 10
       /\ text[5] = "-"
       /\ text[8] = "-"
       /\ AllDigits(SubSeq(text, 1, 4))
       /\ AllDigits(SubSeq(text, 6, 7))
       /\ AllDigits(SubSeq(text, 9, 10))
    THEN LET y == DigitsVal(SubSeq(text, 1, 4))
             m == DigitsVal(SubSeq(text, 6, 7))
             d == DigitsVal(SubSeq(text, 9, 10))
         IN  IF m \in 1..12 /\ d >= 1 /\ d <= DaysInMonth(y, m)
             THEN Some(<<y, m, d>>)
             ELSE None
    ELSE None

\* the order of two timestamps
DateBefore(a, b) ==
    \/ a[1] < b[1]
    \/ a[1] = b[1] /\ a[2] < b[2]
    \/ a[1] = b[1] /\ a[2] = b[2] /\ a[3] < b[3]

\* SortOrders leaving the rows in any order.
SortOrders_Unsorted(dates) == Permutations(1..Len(dates))

\* line 500: the row orders df.sort_values('Date') may produce: ascending,
\* NaT last, rows of equal date in any order (the default sort is not stable)
SortOrders(dates) ==
    {p \in Permutations(1..Len(dates)) :
        \A i, j \in 1..Len(dates) :
            i < j =>
                /\ ~(dates[p[i]] = None /\ dates[p[j]] # None)
                /\ (dates[p[i]] # None /\ dates[p[j]] # None)
                       => ~DateBefore(Get(dates[p[j]]), Get(dates[p[i]]))}

\* line 501: dt.strftime('%Y-%m-%d') of one cell (NaT gives a null)
Strftime(ts) ==
    IF ts = None THEN None
    ELSE Some(FormatDate(Get(ts)[1], Get(ts)[2], Get(ts)[3]))

\* line 507: the cells of one row in the order of column_order, the Date
\* cell replaced by the re-formatted timestamp
Reorder(r, date) ==
    [i \in 1..Len(column_order) |->
        IF column_order[i] = "Date" THEN date ELSE r[column_order[i]]]

\* lines 496-507: the DataFrame for the rows taken in the order p
Frame(df, p) ==
    [columns |-> column_order,
     rows |-> [i \in 1..Len(df) |->
                  Reorder(df[p[i]], Strftime(ToDatetime(df[p[i]].Date)))]]

\* lines 491-493: fetch_week_games returned an empty list
MainNoGames ==
    /\ pc = "done"
    /\ games = <<>>
    /\ outcome' = "no_data"
    /\ pc' = "exit"
    /\ UNCHANGED fvars
    /\ UNCHANGED cvars
    /\ UNCHANGED <<calls, week_response, table>>
    /\ UNCHANGED args

\* lines 495-513: the games are sorted by date and written
MainSave ==
    /\ pc = "done"
    /\ games # <<>>
    /\ \E p \in SortOrders([i \in 1..Len(games) |-> ToDatetime(games[i].Date)]) :
          table' = Some(Frame(games, p))
    /\ outcome' = "saved"
    /\ pc' = "exit"
    /\ UNCHANGED fvars
    /\ UNCHANGED cvars
    /\ UNCHANGED <<calls, week_response>>
    /\ UNCHANGED args

MainStep ==
    \/ MainNoGames
    \/ MainSave

CrawlStep ==
    \/ WeekRobotsDisallowed
    \/ WeekRobotsAllowed
    \/ WeekFetchFailed
    \/ WeekFetched
    \/ GameDropped
    \/ GameExtracted
    \/ BoxRobotsDisallowed
    \/ BoxRobotsAllowed
    \/ BoxFetchFailed
    \/ BoxFetched
    \/ GameReturn

(***************************************************************************)
(* Spec: one run of main --year 2023 --week 1 from its call of             *)
(* fetch_week_games(week_url).                                             *)
(***************************************************************************)
Init ==
    /\ pc = "week_robots"
    /\ caller = "none"
    /\ furl = <<>>
    /\ attempt = 0
    /\ gets = 0
    /\ sleeps = 0
    /\ slept = None
    /\ resp = NoResp
    /\ fresult = Pending
    /\ page = <<>>
    /\ idx = 0
    /\ g = NoGame
    /\ boxscore = None
    /\ games = <<>>
    /\ ret = None
    /\ robots = 0
    /\ delays = 0
    /\ calls = <<>>
    /\ week_response = "not_called"
    /\ outcome = "running"
    /\ table = None
    /\ args = [year |-> 2023, week |-> W_1]

Next == FetchStep \/ CrawlStep \/ MainStep

Spec == Init /\ [][Next]_vars

(***************************************************************************)
(* SpecMain: main from its first line, for every command line, up to the   *)
(* arrival of the week page.  The loop over the page's games reads no      *)
(* argument; Spec follows it.                                              *)
(***************************************************************************)
Years == {2020, 2023}

Weeks ==
    {W_1, W_18, W_0, W_19, W_01, W_SUP2, W_PLUS_1, W_ABC, W_EMPTY,
     W_WILD_CARD, W_DIVISIONAL, W_CONFERENCE, W_SUPER_BOWL, W_WILD_CARD_UPPER}

\* lines 460-468: the week is refused, main prints the error and returns
MainWeekRejected ==
    /\ pc = "main_start"
    /\ WeekCheck(args.week) = "error"
    /\ outcome' = "invalid_week"
    /\ pc' = "exit"
    /\ UNCHANGED <<fvars, cvars, calls, week_response, table, args>>

\* line 462: int(week) raises ValueError, which main does not catch
MainWeekRaises ==
    /\ pc = "main_start"
    /\ WeekCheck(args.week) = "ValueError"
    /\ outcome' = "ValueError"
    /\ pc' = "exit"
    /\ UNCHANGED <<fvars, cvars, calls, week_response, table, args>>

\* lines 470-489: the week is accepted and main calls fetch_week_games
MainWeekAccepted ==
    /\ pc = "main_start"
    /\ WeekCheck(args.week) = "ok"
    /\ pc' = "week_robots"
    /\ UNCHANGED <<fvars, cvars, mvars, args>>

InitMain ==
    /\ pc = "main_start"
    /\ caller = "none"
    /\ furl = <<>>
    /\ attempt = 0
    /\ gets = 0
    /\ sleeps = 0
    /\ slept = None
    /\ resp = NoResp
    /\ fresult = Pending
    /\ page = <<>>
    /\ idx = 0
    /\ g = NoGame
    /\ boxscore = None
    /\ games = <<>>
    /\ ret = None
    /\ robots = 0
    /\ delays = 0
    /\ calls = <<>>
    /\ week_response = "not_called"
    /\ outcome = "running"
    /\ table = None
    /\ args \in [year : Years, week : Weeks]

NextMain ==
    \/ MainWeekRejected
    \/ MainWeekRaises
    \/ MainWeekAccepted
    \/ WeekRobotsDisallowed
    \/ WeekRobotsAllowed
    \/ FetchStep
    \/ WeekFetchFailed
    \/ WeekFetched
    \/ MainNoGames

SpecMain == InitMain /\ [][NextMain]_vars

(***************************************************************************)
(* Claims about fetch_with_retry (checked under SpecFetch).                *)
(***************************************************************************)
\* The last GET was answered 429 on an attempt that has a retry left.
RateLimitedWithRetryLeft ==
    /\ resp.kind = "response"
    /\ resp.status = 429
    /\ resp.at < MAX_RETRIES

\* The call slept d seconds after the last answer and is at the next attempt.
SleptThenNextAttempt(d) ==
    /\ pc = "fetch_get"
    /\ fresult = Pending
    /\ attempt = resp.at + 1
    /\ sleeps = attempt
    /\ slept = Some(d)

\* C2: a 429 on attempt n < maxRetries with a Retry-After header that parses
\* as an integer k is followed by a sleep of exactly k seconds and attempt
\* n+1; with no Retry-After header, by a sleep of exactly baseDelay * 2^n
\* seconds and attempt n+1.
C2_RetryAfterOrExponential ==
    RateLimitedWithRetryLeft =>
        /\ (IsSome(resp.retryAfter) /\ IsSome(ParseInt(Get(resp.retryAfter))))
              => SleptThenNextAttempt(Get(ParseInt(Get(resp.retryAfter))))
        /\ (resp.retryAfter = None)
              => SleptThenNextAttempt(CRAWL_DELAY * Pow2(resp.at))

RateLimitSignal ==
    \/ (resp.kind = "response" /\ resp.status = 429)
    \/ (resp.kind = "exception" /\ resp.msg = MSG_RETRY)

\* C4: a call issues at most maxRetries + 1 GETs and has ended once the last
\* one is answered; when the last attempt too gives a rate-limit signal, the
\* call returns None, without raising and without a further sleep.
C4_BoundedAndReturnsNone ==
    /\ gets <= MAX_RETRIES + 1
    /\ (gets = MAX_RETRIES + 1 => pc = "fetch_done")
    /\ (RateLimitSignal /\ resp.at = MAX_RETRIES)
          => (fresult = ReturnedNone /\ sleeps = MAX_RETRIES)

\* C5: after a 429 response, whatever its Retry-After value, the call is
\* either retrying or has returned None; it has not raised.
C5_NeverRaisesOn429 ==
    (resp.kind = "response" /\ resp.status = 429)
        => (fresult = Pending \/ fresult = ReturnedNone)

\* The last GET failed with something that is no rate-limit signal: an error
\* status other than 429, a timeout or a refused connection.
HardError ==
    \/ (resp.kind = "response" /\ resp.status \in ErrorStatuses)
    \/ (resp.kind = "exception" /\ resp.msg \in {MSG_TIMEOUT, MSG_REFUSED})

\* C6: a non-429 error status or a transport error ends the call with an
\* exception on the attempt where it occurs: no sleep and no further GET for
\* it, for every url and every error message.
C6_HardErrorSurfacesAtOnce ==
    HardError =>
        /\ pc = "fetch_done"
        /\ fresult = Raised("RequestException")
        /\ attempt = resp.at
        /\ gets = resp.at + 1
        /\ sleeps = resp.at

(***************************************************************************)
(* Claims about parse_game_summary and fetch_week_games (checked under     *)
(* Spec).  What the claims expect is written out for the inputs, not       *)
(* computed with the operators that model the code.                        *)
(***************************************************************************)
\* parse_game_summary has returned a game for block idx of the page.
Emitted == pc \in {"game", "done"} /\ idx >= 1 /\ IsSome(ret)

\* The gamelinks whose path holds an 8-digit date followed by an abbreviation
\* of the registry, each with the registry's full name for it.
RegisteredLinks ==
    {<<Some(HREF_KAN), T_KansasCityChiefs>>,
     <<Some(HREF_WAS), T_WashingtonFootballTeam>>,
     <<Some(HREF_NYJ), T_NewYorkJets>>,
     <<Some(HREF_GB), T_GreenBayPackers>>,
     <<Some(HREF_RELATIVE), T_BaltimoreRavens>>}

\* The gamelinks whose date and token parse, the token not in the registry.
UnregisteredLinks == {Some(HREF_RAI)}

\* No boxscore link, or a path without 8 digits, 2-3 lowercase letters and
\* ".htm" in a row.
UnparsedLinks ==
    {None, Some(HREF_UPPER), Some(HREF_SHORT_DATE), Some(HREF_LONG_TOKEN),
     Some(HREF_NOT_BOXSCORE)}

\* The (registry name, winner name) pairs in which a word of the registry
\* name longer than 3 characters occurs, whatever the case, in the winner name.
WordOccurs ==
    {<<T_KansasCityChiefs, T_KansasCityChiefs>>,
     <<T_KansasCityChiefs, N_KansasCityLower>>,
     <<T_WashingtonFootballTeam, N_WashingtonCommanders>>,
     <<T_NewYorkJets, T_NewYorkGiants>>,
     <<T_BaltimoreRavens, T_BaltimoreRavens>>}

ScoreValue(text) ==
    CASE text = SCORE_24 -> 24
      [] text = SCORE_20 -> 20
      [] text = SCORE_0 -> 0

WinnerName == Get(Get(page[idx].winner).link)

LoserName == Get(Get(page[idx].loser).link)

WinnerScore == ScoreValue(Get(Get(page[idx].winner).score))

LoserScore == ScoreValue(Get(Get(page[idx].loser).score))

\* The returned game has the winner at home.
WinnerIsHome ==
    /\ Get(ret).HomeTeam = WinnerName
    /\ Get(ret).HomeScore = WinnerScore
    /\ Get(ret).AwayTeam = LoserName
    /\ Get(ret).AwayScore = LoserScore

\* The returned game has the loser at home.
LoserIsHome ==
    /\ Get(ret).HomeTeam = LoserName
    /\ Get(ret).HomeScore = LoserScore
    /\ Get(ret).AwayTeam = WinnerName
    /\ Get(ret).AwayScore = WinnerScore

\* C1: the page of the end-to-end scenario (one block: Kansas City Chiefs 24,
\* Baltimore Ravens 20, Sep 7, 2023, link 202309070kan.htm), its boxscore
\* fetched with the rows "Rush-Yds-TDs" 28-140-1 / 22-85-0 and "Net Pass
\* Yards" 210 / 180, gives exactly the row 2023-09-07, Kansas City Chiefs,
\* Baltimore Ravens, 24, 20, 140, 85, 210, 180.
C1_EndToEndRow ==
    (/\ pc = "done"
     /\ page = <<FixtureBlock>>
     /\ g.fetched = "response"
     /\ boxscore = FixtureStats)
        => games = <<[Date |-> DATE_ISO,
                      HomeTeam |-> T_KansasCityChiefs,
                      AwayTeam |-> T_BaltimoreRavens,
                      HomeScore |-> 24,
                      AwayScore |-> 20,
                      HomeRushingYards |-> Some(140),
                      AwayRushingYards |-> Some(85),
                      HomePassingYards |-> Some(210),
                      AwayPassingYards |-> Some(180)]>>

\* C7 as claimed: for every block whose link holds a date and a registered
\* abbreviation, whatever the two team names, the home team of the returned
\* game is the registry's full name for the abbreviation.
C7_HomeIsRegistryName ==
    \A rl \in RegisteredLinks :
        (Emitted /\ page[idx].href = rl[1]) => Get(ret).HomeTeam = rl[2]

\* C7 as amended: for every block whose link holds a date and a registered
\* abbreviation, and whose winner or loser name equals the registry's full
\* name for it, the home team of the returned game is that registry name.
C7_HomeIsRegistryNameWhenExact ==
    \A rl \in RegisteredLinks :
        (/\ Emitted
         /\ page[idx].href = rl[1]
         /\ (WinnerName = rl[2] \/ LoserName = rl[2]))
            => Get(ret).HomeTeam = rl[2]

\* C7 witness: a game was returned for a block linked to ...kan.htm whose
\* loser is the Kansas City Chiefs: the loser is home.
C7_Witness ==
    /\ Emitted
    /\ page[idx].href = Some(HREF_KAN)
    /\ LoserName = T_KansasCityChiefs
    /\ WinnerName = T_BaltimoreRavens
    /\ Get(ret).HomeTeam = T_KansasCityChiefs
    /\ Get(ret).HomeScore = 20

\* C8: when the registry name of the link's abbreviation equals the winner's
\* name the returned game has the winner at home with the winner's score;
\* when it equals the loser's name and not the winner's, the loser at home
\* with the loser's score; and the branch taken is the exact one, neither
\* the word match nor the default.
C8_ExactMatchFirst ==
    \A rl \in RegisteredLinks :
        (Emitted /\ page[idx].href = rl[1]) =>
            /\ (WinnerName = rl[2])
                  => (WinnerIsHome /\ g.path = "exact_winner")
            /\ (LoserName = rl[2] /\ WinnerName # rl[2])
                  => (LoserIsHome /\ g.path = "exact_loser")

\* C8 witness: the link names the loser's team (Kansas City Chiefs) and a
\* word of that name occurs in the winner's name ("kansas city chiefs"):
\* the exact match wins and the loser is home.
C8_Witness ==
    /\ Emitted
    /\ page[idx].href = Some(HREF_KAN)
    /\ LoserName = T_KansasCityChiefs
    /\ WinnerName = N_KansasCityLower
    /\ LoserIsHome

\* The registry name of the link of block idx, if it has one.
LinkRegistryName ==
    IF \E rl \in RegisteredLinks : rl[1] = page[idx].href
    THEN Some((CHOOSE rl \in RegisteredLinks : rl[1] = page[idx].href)[2])
    ELSE None

\* C9: when the link's date and token parse and the registry name equals
\* neither team name (or the token is not in the registry), the returned
\* game has the winner at home if and only if a word of the registry name
\* longer than 3 characters occurs, whatever the case, in the winner's name;
\* otherwise it has the loser at home; the default is not what decided.
C9_WordMatchElseLoser ==
    (/\ Emitted
     /\ \/ page[idx].href \in UnregisteredLinks
        \/ /\ IsSome(LinkRegistryName)
           /\ Get(LinkRegistryName) # WinnerName
           /\ Get(LinkRegistryName) # LoserName)
        => /\ g.path # "default"
           /\ IF /\ IsSome(LinkRegistryName)
                 /\ <<Get(LinkRegistryName), WinnerName>> \in WordOccurs
              THEN WinnerIsHome /\ ~LoserIsHome
              ELSE LoserIsHome /\ ~WinnerIsHome

\* C9 witness, the word match: link ...kan.htm, winner "kansas city chiefs"
\* (another case than the registry's), loser Baltimore Ravens: winner home.
C9_Witness ==
    /\ Emitted
    /\ page[idx].href = Some(HREF_KAN)
    /\ WinnerName = N_KansasCityLower
    /\ LoserName = T_BaltimoreRavens
    /\ WinnerIsHome
    /\ g.path = "fuzzy_winner"

\* C10: a block with no boxscore link, or whose link path does not hold an
\* 8-digit date, a token of 2-3 lowercase letters and ".htm" in a row, gives
\* a game with the winner at home, the loser away and the winner's score as
\* home score.
C10_DefaultWinnerHome ==
    (Emitted /\ page[idx].href \in UnparsedLinks)
        => (WinnerIsHome /\ g.path = "default")

\* C10 witness: a boxscore link whose token is in upper case; the game is
\* returned with the winner (Baltimore Ravens) at home although the link
\* names the loser's team.
C10_Witness ==
    /\ Emitted
    /\ page[idx].href = Some(HREF_UPPER)
    /\ WinnerName = T_BaltimoreRavens
    /\ LoserName = T_KansasCityChiefs
    /\ WinnerIsHome

(***************************************************************************)
(* Claims about the records and the run (checked under Spec).              *)
(***************************************************************************)
\* The loop has finished with block idx of the page: ret is what
\* parse_game_summary returned for it.
BlockFinished ==
    /\ idx >= 1
    /\ pc \in {"game", "done", "exit"}

\* Date texts that match neither '%b %d, %Y' nor '%B %d, %Y'.
UnmatchedDates == {Some(DATE_FEB30), Some(DATE_ISO)}

\* C11: in every record accumulated by the crawl the date is a calendar date
\* and both team names are non-empty (the scores are integers by
\* construction of the record); a block whose date row is missing or whose
\* date text matches neither format returns no record.
C11_RequiredFieldsPresent ==
    /\ \A i \in 1..Len(games) :
          /\ ToDatetime(games[i].Date) # None
          /\ games[i].HomeTeam # <<>>
          /\ games[i].AwayTeam # <<>>
          /\ games[i].HomeScore \in Int
          /\ games[i].AwayScore \in Int
    /\ (BlockFinished /\ page[idx].date \in UnmatchedDates \cup {None})
          => (ret = None /\ games = <<>>)

\* A block with an unmatched date text went through the boxscore fetch and
\* was then rejected.
C11_Witness ==
    /\ pc = "done"
    /\ idx = 1
    /\ page[1].date \in UnmatchedDates
    /\ g.fetched = "response"
    /\ ret = None
    /\ games = <<>>

\* A winner or loser row that is missing, has no team link, has no score
\* cell, or whose score cell is not an integer.
RowDefect(row) ==
    \/ row = None
    \/ Get(row).link = None
    \/ Get(row).score = None
    \/ Get(row).score = Some(SCORE_BAD)

\* C12: a block with a defective winner or loser row returns no record: the
\* loop has gone on past it with ret None, none of the locals of lines
\* 199-275 was set, no boxscore call was made for it and nothing was
\* appended for it.
C12_DefectiveBlockDropped ==
    (idx >= 1 /\ (RowDefect(page[idx].winner) \/ RowDefect(page[idx].loser)))
        => /\ pc \in {"game", "done", "exit"}
           /\ ret = None
           /\ g = NoGame
           /\ calls = <<>>
           /\ Len(games) <= idx - 1

\* The first of two blocks has no winner row; the loop is at the second.
C12_Witness ==
    /\ pc = "game"
    /\ idx = 1
    /\ Len(page) = 2
    /\ page[1].winner = None
    /\ ret = None
    /\ games = <<>>

\* The boxscore page of the running game has been read and held a table.
StatsRead == g.fetched = "response" /\ boxscore # None

\* The positions of the hyphens of a cell.
Hyphens(cell) == {i \in 1..Len(cell) : cell[i] = "-"}

\* The text between the first hyphen of a cell and its second hyphen (or
\* its end).
MiddleSegment(cell) ==
    LET h1 == CHOOSE i \in Hyphens(cell) : \A j \in Hyphens(cell) : i <= j
        after == {i \in Hyphens(cell) : i > h1} \cup {Len(cell) + 1}
        h2 == CHOOSE i \in after : \A j \in after : i <= j
    IN  SubSeq(cell, h1 + 1, h2 - 1)

\* A cell of hyphen-delimited numbers.
Triplet(cell) ==
    /\ Hyphens(cell) # {}
    /\ MiddleSegment(cell) # <<>>
    /\ \A i \in 1..Len(MiddleSegment(cell)) : IsDigit(MiddleSegment(cell)[i])

\* C13: for a table whose first row is the "Rush-Yds-TDs" row, two
\* hyphen-delimited cells give away rushing yards = the middle segment of
\* the first cell and home rushing yards = the middle segment of the second
\* ("25-120-1"/"30-95-0": away 120, home 95); a cell "abc" leaves both
\* rushing fields null, and a later "Pass Yds" row is still read.
C13_RushingMiddleSegment ==
    (StatsRead /\ Get(boxscore)[1].header = Some(H_RUSH)) =>
        LET rows == Get(boxscore)
            away_cell == rows[1].cells[1]
            home_cell == rows[1].cells[2]
        IN  /\ (Triplet(away_cell) /\ Triplet(home_cell)) =>
                  /\ g.away_rushing = Some(DigitsVal(MiddleSegment(away_cell)))
                  /\ g.home_rushing = Some(DigitsVal(MiddleSegment(home_cell)))
            /\ (away_cell = CELL_25_120_1 /\ home_cell = CELL_30_95_0) =>
                  /\ g.away_rushing = Some(120)
                  /\ g.home_rushing = Some(95)
            /\ (away_cell = CELL_ABC \/ home_cell = CELL_ABC) =>
                  /\ g.away_rushing = None
                  /\ g.home_rushing = None
                  /\ \A k \in 2..Len(rows) :
                        (/\ rows[k].header = Some(H_PASS_YDS)
                         /\ Len(rows[k].cells) = 2
                         /\ rows[k].cells[1] = CELL_210)
                            => g.away_passing = Some(210)

\* The rushing row "abc"/"30-95-0" was skipped and the passing row after it
\* was read.
C13_Witness ==
    /\ StatsRead
    /\ Get(boxscore)[1] = StatRow(H_RUSH, CELL_ABC, CELL_30_95_0)
    /\ Get(boxscore)[2] = StatRow(H_PASS_YDS, CELL_210, CELL_ABC)
    /\ g.away_rushing = None
    /\ g.home_rushing = None
    /\ g.away_passing = Some(210)

\* A cell holding a plain number.
PlainNumber(cell) == cell # <<>> /\ \A i \in 1..Len(cell) : IsDigit(cell[i])

\* C14: in a matched rushing or passing row, a cell that fails integer
\* parsing leaves only its own side null: each side whose cell parses has
\* its parsed value, whichever of the two cells is the bad one.
C14_BadCellOnlyOwnSide ==
    StatsRead =>
        \A k \in 1..Len(Get(boxscore)) :
            LET row == Get(boxscore)[k]
            IN  /\ (/\ row.header = Some(H_PASS_YDS)
                    /\ Len(row.cells) = 2) =>
                      /\ PlainNumber(row.cells[1]) =>
                            g.away_passing = Some(DigitsVal(row.cells[1]))
                      /\ PlainNumber(row.cells[2]) =>
                            g.home_passing = Some(DigitsVal(row.cells[2]))
                /\ (/\ row.header = Some(H_RUSH)
                    /\ Hyphens(row.cells[1]) # {}
                    /\ Hyphens(row.cells[2]) # {}) =>
                      /\ Triplet(row.cells[1]) =>
                            g.away_rushing = Some(DigitsVal(MiddleSegment(row.cells[1])))
                      /\ Triplet(row.cells[2]) =>
                            g.home_rushing = Some(DigitsVal(MiddleSegment(row.cells[2])))

\* The boxscore page of the running game was not obtained.
StatsFailed == g.fetched \in {"none", "raised", "robots_disallowed"}

\* The running game has its date, both team names and both scores.
RequiredPresent ==
    /\ g.date_str # None
    /\ g.home_team \notin {None, Some(<<>>)}
    /\ g.away_team \notin {None, Some(<<>>)}
    /\ g.home_score # None
    /\ g.away_score # None

\* The block gives a record: it is extracted and passes line 338.
Kept(b) == Extract(b) # None /\ ~Rejected(Get(Extract(b)))

\* The date, teams and scores of a record.
Core(r) == <<r.Date, r.HomeTeam, r.AwayTeam, r.HomeScore, r.AwayScore>>

\* The date, teams and scores of the records of the first n blocks of the
\* page, in page order.
KeptCores(n) ==
    LET kept == SelectSeq(SubSeq(page, 1, n), Kept)
    IN  [i \in 1..Len(kept) |-> Core(GameData(Get(Extract(kept[i]))))]

\* C15: the loop is never cut short: once the week page was fetched the
\* run ends only after the last block, the accumulated records of a page
\* of several blocks are, between two blocks and at the end, those of its
\* kept blocks already finished, in page order, and a block whose
\* boxscore page was not obtained (None returned, an exception, robots
\* disallowed) and that has its date, teams and scores is appended with its
\* four yardage fields null.
C15_PerGameFailuresDoNotAbort ==
    /\ (pc \in {"done", "exit"} /\ week_response = "response")
          => idx = Len(page)
    /\ Len(games) <= idx
    /\ (Len(page) >= 2 /\ pc \in {"game", "done", "exit"}) =>
          [i \in 1..Len(games) |-> Core(games[i])] = KeptCores(idx)
    /\ (BlockFinished /\ StatsFailed /\ RequiredPresent) =>
          /\ Len(games) >= 1
          /\ ret = Some(games[Len(games)])
          /\ games[Len(games)].HomeRushingYards = None
          /\ games[Len(games)].AwayRushingYards = None
          /\ games[Len(games)].HomePassingYards = None
          /\ games[Len(games)].AwayPassingYards = None

\* The boxscore fetch of the first of two blocks raised; its record was
\* appended without yardage and the loop is at the second block.
C15_Witness ==
    /\ pc = "game"
    /\ Len(page) = 2
    /\ idx = 1
    /\ g.fetched = "raised"
    /\ Len(games) = 1
    /\ games[1].HomeRushingYards = None
    /\ games[1].AwayPassingYards = None

\* C16: a run ends without a table (the Aborted outcome) if and only if the
\* week page could not be fetched (None after the retries, or an
\* exception); every other run ends with a table handed to the writer, an
\* empty one when the page gave no game.
C16_AbortedOnlyWhenWeekPageUnreachable ==
    pc = "exit" =>
        /\ outcome \in {"no_data", "saved"}
        /\ (outcome = "no_data") <=> (week_response \in {"none", "raised"})
        /\ (outcome = "saved") <=> (table # None)

\* How many fetch_with_retry calls the running game has made.
FetchCalls == Cardinality({i \in 1..Len(calls) : calls[i] = FetchCall})

\* C17: while a boxscore page is being fetched, the call is for the running
\* game's url and was preceded, for that game, by a robots check that
\* answered True and then the crawl delay; a game whose robots check
\* answered False has made no other call, no GET is in progress for it and
\* its four yardage fields are null; no game makes more than one
\* fetch_with_retry call, and there are never more crawl delays than blocks
\* taken.
C17_RobotsThenDelayThenFetch ==
    /\ caller = "boxscore" =>
          /\ furl = Get(g.game_url)
          /\ \E a \in {"allow", "error"} :
                calls = <<RobotsCall(a), SleepCall, FetchCall>>
    /\ g.fetched = "robots_disallowed" =>
          /\ \E a \in {"disallow", "http_403", "http_500"} :
                calls = <<RobotsCall(a)>>
          /\ caller = "none"
          /\ gets = 0
          /\ g.home_rushing = None
          /\ g.away_rushing = None
          /\ g.home_passing = None
          /\ g.away_passing = None
    /\ FetchCalls <= 1
    /\ delays <= idx

\* The second game of a page is on its second GET, after its own robots
\* check and crawl delay.
C17_Witness ==
    /\ caller = "boxscore"
    /\ idx = 2
    /\ gets = 1
    /\ delays = 2
    /\ calls = <<RobotsCall("allow"), SleepCall, FetchCall>>

\* C18: robots.txt is fetched at most once during a run.
C18_RobotsFetchedAtMostOnce == robots <= 1

\* The ways the read of robots.txt fails.
RobotsFailures == {"error", "http_403", "http_500"}

\* C19: a robots check whose read of robots.txt failed answered True: the
\* fetch it guards was called.
C19_RobotsGateFailsOpen ==
    \A i \in 1..Len(calls) :
        (calls[i][1] = "check_robots_txt" /\ calls[i][2] \in RobotsFailures)
            => calls[Len(calls)] = FetchCall

\* A 'YYYY-MM-DD' text as the number YYYYMMDD.
DateNum(text) == DigitsVal(RemoveChar(text, "-"))

\* The cells of a record in the order of the output columns.
Cells(r) ==
    <<Some(r.Date), r.HomeTeam, r.AwayTeam, r.HomeScore, r.AwayScore,
      r.HomeRushingYards, r.AwayRushingYards,
      r.HomePassingYards, r.AwayPassingYards>>

\* C20: the table handed to the writer has the nine columns in the fixed
\* order, its rows are the accumulated records, each once and unaltered,
\* and they are in ascending order of Date.
C20_TableSortedPermutation ==
    outcome = "saved" =>
        LET t == Get(table)
        IN  /\ t.columns =
                  <<"Date", "HomeTeam", "AwayTeam", "HomeScore", "AwayScore",
                    "HomeRushingYards", "AwayRushingYards",
                    "HomePassingYards", "AwayPassingYards">>
            /\ Len(t.rows) = Len(games)
            /\ \E p \in Permutations(1..Len(games)) :
                  \A i \in 1..Len(games) : t.rows[i] = Cells(games[p[i]])
            /\ \A i, j \in 1..Len(t.rows) :
                  i < j => DateNum(Get(t.rows[i][1])) <= DateNum(Get(t.rows[j][1]))

\* The later game was accumulated first and is the second row of the table.
C20_Witness ==
    /\ outcome = "saved"
    /\ Len(games) = 2
    /\ DateNum(games[1].Date) > DateNum(games[2].Date)
    /\ Get(table).rows[1] = Cells(games[2])
    /\ Get(table).rows[2] = Cells(games[1])

(***************************************************************************)
(* Claims about main's command line (SpecMain).                            *)
(***************************************************************************)

\* The --week values the interface admits: a decimal numeral of an integer in
\* 1..18, or the name of a playoff round.
AdmittedWeek(week) ==
    \/ AllDigits(week) /\ DigitsVal(week) \in 1..18
    \/ week \in {W_WILD_CARD, W_DIVISIONAL, W_CONFERENCE, W_SUPER_BOWL}

\* No robots check and no fetch was issued, and no output was written.
NothingIssued ==
    /\ robots = 0
    /\ gets = 0
    /\ calls = <<>>
    /\ week_response = "not_called"
    /\ table = None

\* The crawl was started: main went on to fetch_week_games, whose first call
\* is the robots check of the week page.
CrawlStarted ==
    \/ pc = "week_robots"
    \/ calls # <<>> /\ Head(calls)[1] = "check_robots_txt"

\* C21: a run whose --week value is not admitted ends with main's error
\* message, before any robots check or fetch and without output; a run whose
\* --week value is admitted starts the crawl.
C21_InvalidWeekRejectedBeforeCrawl ==
    /\ ~AdmittedWeek(args.week) =>
           /\ pc \in {"main_start", "exit"}
           /\ pc = "exit" => outcome = "invalid_week"
           /\ NothingIssued
    /\ AdmittedWeek(args.week) /\ pc # "main_start" => CrawlStarted

\* The part of C21 that holds for every value: a run whose --week value is
\* not admitted issues nothing and writes nothing, and a run whose value is
\* admitted starts the crawl.
C21_NothingIssuedForInvalidWeek ==
    /\ ~AdmittedWeek(args.week) =>
           /\ pc \in {"main_start", "exit"}
           /\ pc = "exit" => outcome \in {"invalid_week", "ValueError"}
           /\ NothingIssued
    /\ AdmittedWeek(args.week) /\ pc # "main_start" => CrawlStarted

\* The run of C21's failing input: --week is a superscript digit and main
\* ended in int()'s ValueError.
C21_UncaughtValueError ==
    /\ args.week = W_SUP2
    /\ pc = "exit"
    /\ outcome = "ValueError"

\* The week-listing page C22 names: week_N.htm for a numeric week N, r.htm
\* for a playoff round r.
ClaimedWeekUrl(year, week) ==
    IF AllDigits(week)
    THEN PFR_BASE_URL \o STR_YEARS \o NatToStr(year) \o STR_WEEK_
             \o NatToStr(DigitsVal(week)) \o STR_DOT_HTM
    ELSE PFR_BASE_URL \o STR_YEARS \o NatToStr(year) \o <<"/">>
             \o week \o STR_DOT_HTM

\* C22: the week-listing page a run fetches is {base}/years/Y/week_N.htm for
\* a numeric week N and {base}/years/Y/r.htm for a playoff round r.
C22_WeekPageUrl ==
    caller = "week" => furl = ClaimedWeekUrl(args.year, args.week)

\* The half of C22 that holds: a run for a playoff round r fetches
\* {base}/years/Y/r.htm.
C22_PlayoffRoundUrl ==
    caller = "week" /\ args.week \in PlayoffRounds =>
        furl = ClaimedWeekUrl(args.year, args.week)

\* What a run for a numeric week fetches: {base}/years/Y/N.htm, with the
\* week as it was typed.
C22_NumericWeekUrl ==
    caller = "week" /\ AllDigits(args.week) =>
        furl = PFR_BASE_URL \o STR_YEARS \o NatToStr(args.year) \o <<"/">>
                   \o args.week \o STR_DOT_HTM

(***************************************************************************)
(* Claims about the pairing of teams and scores (Spec).                    *)
(***************************************************************************)

\* C23: in every emitted record, (home team, home score), (away team, away
\* score) is (winner, winner score), (loser, loser score) or the same two
\* pairs swapped, whichever way home and away were resolved.
C23_ScoresStayWithTeams ==
    Emitted => WinnerIsHome \/ LoserIsHome

\* A record was emitted with the loser at home, the two names and the two
\* scores being different.
C23_Witness ==
    /\ Emitted
    /\ LoserIsHome
    /\ WinnerName # LoserName
    /\ WinnerScore # LoserScore
    /\ g.path \in {"exact_loser", "no_match_loser"}

============================================================================
